---- MODULE Spec2Model ----
(***************************************************************************)
(* A model of the OwlLang semantic core: the type checker                  *)
(* (typechecker/checker.py, typechecker/types.py) and the lowering         *)
(* (transpiler/transpiler.py), driven over bounded sets of ASTs.           *)
(***************************************************************************)
EXTENDS Naturals, Sequences, FiniteSets, TLC

RECURSIVE TypeEq(_, _)
RECURSIVE LookupVarFrom(_, _, _)
RECURSIVE LookupFnFrom(_, _, _)
RECURSIVE MarkUsedFrom(_, _, _)
RECURSIVE JoinFrom(_, _, _)
RECURSIVE _parse_type(_, _)
RECURSIVE _check_expr(_, _)
RECURSIVE _check_args(_, _, _)
RECURSIVE _check_stmt(_, _)
RECURSIVE _check_stmts(_, _, _)
RECURSIVE _check_if_expr(_, _)
RECURSIVE _check_match_expr(_, _)
RECURSIVE MatchArmsLoop(_, _, _, _)
RECURSIVE ArmTypesLoop(_, _, _, _)
RECURSIVE _stmt_has_return(_)
RECURSIVE AnyHasReturn(_, _)
RECURSIVE BodyLoop(_, _, _)
RECURSIVE ParamsLoop(_, _, _)
RECURSIVE UnusedLoop(_, _, _, _)
RECURSIVE RegisterLoop(_, _, _)
RECURSIVE ImportsLoop(_, _, _)
RECURSIVE ImportNamesLoop(_, _, _)
RECURSIVE FunctionsLoop(_, _, _)
RECURSIVE _expr_has_result(_)
RECURSIVE AnyExprHasResult(_, _)
RECURSIVE _stmt_has_result(_)
RECURSIVE AnyStmtHasResult(_, _)
RECURSIVE AnyFnHasResult(_, _)
RECURSIVE EscapeFrom(_, _)
RECURSIVE ReplaceFrom(_, _, _, _)
RECURSIVE _transpile_expr(_, _)
RECURSIVE TranspileArgs(_, _, _, _)
RECURSIVE build_conditional(_, _, _, _)
RECURSIVE _transpile_stmt(_, _)
RECURSIVE TranspileStmts(_, _, _, _)
RECURSIVE _transpile_if_as_return(_, _)
RECURSIVE TranspileFns(_, _, _, _)
RECURSIVE ImportLines(_, _)
RECURSIVE JoinNames(_, _)

(***************************************************************************)
(* Types (typechecker/types.py)                                            *)
(***************************************************************************)
OwlType(n) == [cls |-> "OwlType", name |-> n, args |-> <<>>]

INT == OwlType("Int")
FLOAT == OwlType("Float")
STR == OwlType("String")
BOOL == OwlType("Bool")
VOID == OwlType("Void")
UNKNOWN == OwlType("Unknown")
ANY == OwlType("Any")

\* Python's None where the code holds "OwlType | None"
NONE == [cls |-> "NoneType", name |-> "None", args |-> <<>>]

OptionType(inner) ==
    [cls |-> "OptionType", name |-> "Option[" \o inner.name \o "]", args |-> <<inner>>]

ResultType(ok_type, err_type) ==
    [cls |-> "ResultType",
     name |-> "Result[" \o ok_type.name \o ", " \o err_type.name \o "]",
     args |-> <<ok_type, err_type>>]

\* a == b on types: OwlType.__eq__, OptionType.__eq__, ResultType.__eq__
TypeEq(a, b) ==
    IF a.cls = "NoneType" \/ b.cls = "NoneType" THEN a.cls = b.cls
    ELSE IF a.cls = "OwlType" /\ b.cls = "OwlType" THEN a.name = b.name
    ELSE IF a.cls = "OptionType" /\ b.cls = "OptionType" THEN
        \/ TypeEq(a.args[1], ANY)
        \/ TypeEq(b.args[1], ANY)
        \/ TypeEq(a.args[1], b.args[1])
    ELSE IF a.cls = "ResultType" /\ b.cls = "ResultType" THEN
        /\ \/ TypeEq(a.args[1], ANY)
           \/ TypeEq(b.args[1], ANY)
           \/ TypeEq(a.args[1], b.args[1])
        /\ \/ TypeEq(a.args[2], ANY)
           \/ TypeEq(b.args[2], ANY)
           \/ TypeEq(a.args[2], b.args[2])
    ELSE FALSE

types_compatible(expected, actual) ==
    IF TypeEq(expected, ANY) \/ TypeEq(actual, ANY) THEN TRUE
    ELSE IF TypeEq(expected, UNKNOWN) \/ TypeEq(actual, UNKNOWN) THEN TRUE
    ELSE TypeEq(expected, actual)

IsNumeric(t) == TypeEq(t, INT) \/ TypeEq(t, FLOAT)

(***************************************************************************)
(* AST nodes (ast/nodes.py).  A span is a line number; 0 stands for None.  *)
(***************************************************************************)
NoNode == [kind |-> "NoNode"]
NoAnnotation == [name |-> "", params |-> <<>>]

IntLiteral == [kind |-> "IntLiteral"]
FloatLiteral == [kind |-> "FloatLiteral"]
StringLiteral(v) == [kind |-> "StringLiteral", value |-> v]
BoolLiteral == [kind |-> "BoolLiteral"]
Identifier(n) == [kind |-> "Identifier", name |-> n]
BinaryOp(l, o, r) == [kind |-> "BinaryOp", left |-> l, operator |-> o, right |-> r]
UnaryOp(o, e) == [kind |-> "UnaryOp", operator |-> o, operand |-> e]
Call(f, as) == [kind |-> "Call", callee |-> f, arguments |-> as]
FieldAccess(o, f) == [kind |-> "FieldAccess", object |-> o, field |-> f]
TryExpr(e) == [kind |-> "TryExpr", operand |-> e]
SomePattern(b) == [kind |-> "SomePattern", binding |-> b]
NonePattern == [kind |-> "NonePattern", binding |-> ""]
OkPattern(b) == [kind |-> "OkPattern", binding |-> b]
ErrPattern(b) == [kind |-> "ErrPattern", binding |-> b]
MatchArm(p, b) == [pattern |-> p, body |-> b]
MatchExpr(s, as) == [kind |-> "MatchExpr", subject |-> s, arms |-> as]
TypeAnnotation(n, ps) == [name |-> n, params |-> ps]
LetStmt(n, v, ann, sp) ==
    [kind |-> "LetStmt", name |-> n, value |-> v, type_annotation |-> ann, span |-> sp]
AssignStmt(n, v, sp) == [kind |-> "AssignStmt", name |-> n, value |-> v, span |-> sp]
ExprStmt(e, sp) == [kind |-> "ExprStmt", expr |-> e, span |-> sp]
WhileStmt(c, b, sp) == [kind |-> "WhileStmt", condition |-> c, body |-> b, span |-> sp]
ReturnStmt(v, sp) == [kind |-> "ReturnStmt", value |-> v, span |-> sp]
IfStmt(c, t, e, sp) ==
    [kind |-> "IfStmt", condition |-> c, then_body |-> t, else_body |-> e, span |-> sp]
Parameter(n, ann, sp) == [name |-> n, type_annotation |-> ann, span |-> sp]
FnDecl(n, ps, b, rt) == [name |-> n, params |-> ps, body |-> b, return_type |-> rt]
Program(imps, fns, stmts) == [imports |-> imps, functions |-> fns, statements |-> stmts]

(***************************************************************************)
(* Scopes (TypeEnv).  self.env is the last scope of the sequence and each  *)
(* scope's parent is the one before it.                                    *)
(***************************************************************************)
EmptyScope == [var_info |-> <<>>, functions |-> <<>>]

VarInfo(n, t, sp, isp) ==
    [name |-> n, typ |-> t, span |-> sp, is_parameter |-> isp, used |-> FALSE]

HasVar(scope, n) == \E i \in 1..Len(scope.var_info) : scope.var_info[i].name = n
VarIndex(scope, n) == CHOOSE i \in 1..Len(scope.var_info) : scope.var_info[i].name = n
HasFn(scope, n) == \E i \in 1..Len(scope.functions) : scope.functions[i].name = n
FnIndex(scope, n) == CHOOSE i \in 1..Len(scope.functions) : scope.functions[i].name = n

\* a dict assignment: an existing key keeps its place, a new key goes last
ScopeDefineVar(scope, info) ==
    IF HasVar(scope, info.name)
    THEN [scope EXCEPT !.var_info[VarIndex(scope, info.name)] = info]
    ELSE [scope EXCEPT !.var_info = Append(@, info)]

define_var(env, n, t, sp, isp) ==
    [env EXCEPT ![Len(env)] = ScopeDefineVar(@, VarInfo(n, t, sp, isp))]

LookupVarFrom(env, i, n) ==
    IF i = 0 THEN NONE
    ELSE IF HasVar(env[i], n) THEN env[i].var_info[VarIndex(env[i], n)].typ
    ELSE LookupVarFrom(env, i - 1, n)

lookup_var(env, n) == LookupVarFrom(env, Len(env), n)

MarkUsedFrom(env, i, n) ==
    IF i = 0 THEN env
    ELSE IF HasVar(env[i], n)
    THEN [env EXCEPT ![i].var_info[VarIndex(env[i], n)].used = TRUE]
    ELSE MarkUsedFrom(env, i - 1, n)

mark_var_used(env, n) == MarkUsedFrom(env, Len(env), n)

NameStems == {"a", "x", "y", "unused"}
\* name.startswith('_')
StartsWithUnderscore(n) == \E s \in NameStems : n = "_" \o s

get_unused_vars(scope) ==
    SelectSeq(scope.var_info, LAMBDA info : ~info.used /\ ~StartsWithUnderscore(info.name))

define_fn(env, n, param_types, return_type) ==
    LET sig == [name |-> n, param_types |-> param_types, return_type |-> return_type]
        scope == env[Len(env)]
    IN  IF HasFn(scope, n)
        THEN [env EXCEPT ![Len(env)].functions[FnIndex(scope, n)] = sig]
        ELSE [env EXCEPT ![Len(env)].functions = Append(@, sig)]

NoFn == [name |-> "", param_types |-> <<>>, return_type |-> NONE]

LookupFnFrom(env, i, n) ==
    IF i = 0 THEN NoFn
    ELSE IF HasFn(env[i], n) THEN env[i].functions[FnIndex(env[i], n)]
    ELSE LookupFnFrom(env, i - 1, n)

lookup_fn(env, n) == LookupFnFrom(env, Len(env), n)

child_scope(env) == Append(env, EmptyScope)

(***************************************************************************)
(* Diagnostics.  A message is kept as the parts its f-string joins; a      *)
(* backquote of the message text is written as a quote.                    *)
(***************************************************************************)
TypeError(message, line, column) ==
    [message |-> message, line |-> line, column |-> column]

SpanLine(sp) == IF sp = 0 THEN 1 ELSE sp

\* TypeChecker._error
_error(c, message, line) ==
    [c EXCEPT !.errors = Append(@, TypeError(message, line, 1))]

\* TypeChecker._add_diagnostic
_add_diagnostic(c, code, message, sp) ==
    [c EXCEPT !.diagnostics = Append(@, [code |-> code, message |-> message, span |-> sp]),
              !.errors = Append(@, TypeError(message, SpanLine(sp), 1))]

Warning(code, message, sp, notes, hints) ==
    [code |-> code, message |-> message, span |-> sp, notes |-> notes, hints |-> hints]

unused_variable_warning(n, sp) ==
    Warning("W0101", <<"unused variable '", n, "'">>, sp, <<>>,
            <<"if this is intentional, prefix with underscore: '_" \o n \o "'">>)

unused_parameter_warning(n, fn_name, sp) ==
    Warning("W0102",
            IF fn_name # "" THEN <<"unused parameter '", n, "' in function '", fn_name, "'">>
            ELSE <<"unused parameter '", n, "'">>,
            sp, <<>>,
            <<"if this is intentional, prefix with underscore: '_" \o n \o "'">>)

unreachable_code_warning(sp) ==
    Warning("W0201", <<"unreachable code">>, sp, <<"this code will never execute">>, <<>>)

_add_warning(c, w) == [c EXCEPT !.warnings = Append(@, w)]


(***************************************************************************)
(* The checker (TypeChecker).  A checker value c is the instance's fields: *)
(* env, errors, diagnostics, warnings, current_function_return_type (crt). *)
(* Each method is an operator from the checker before the call to the      *)
(* checker after it (with the method's result, when it has one).           *)
(***************************************************************************)
Typed(t, c) == [typ |-> t, c |-> c]

\* a local of the method: K with x bound to the value
With(x, K(_)) == K(x)

Primitives == {"Int", "int", "Float", "float", "String", "str", "Bool", "bool",
               "Void", "void", "Any"}

PrimitiveType(n) ==
    IF n \in {"Int", "int"} THEN INT
    ELSE IF n \in {"Float", "float"} THEN FLOAT
    ELSE IF n \in {"String", "str"} THEN STR
    ELSE IF n \in {"Bool", "bool"} THEN BOOL
    ELSE IF n \in {"Void", "void"} THEN VOID
    ELSE ANY

wrong_type_arity_error(c, type_name, expected, found, sp) ==
    _add_diagnostic(c, "E0314",
        <<"'", type_name, "' expects ", ToString(expected), " type ",
          IF expected = 1 THEN "parameter" ELSE "parameters", ", but ",
          ToString(found), " ", IF found = 1 THEN "was" ELSE "were", " provided">>, sp)

unknown_type_error(c, type_name, sp) ==
    _add_diagnostic(c, "E0315", <<"unknown type '", type_name, "'">>, sp)

_parse_type(type_ann, c) ==
    IF type_ann.name \in Primitives THEN
        IF Len(type_ann.params) > 0
        THEN Typed(UNKNOWN,
                   wrong_type_arity_error(c, type_ann.name, 0, Len(type_ann.params), 0))
        ELSE Typed(PrimitiveType(type_ann.name), c)
    ELSE IF type_ann.name = "Option" THEN
        IF Len(type_ann.params) # 1
        THEN Typed(UNKNOWN, wrong_type_arity_error(c, "Option", 1, Len(type_ann.params), 0))
        ELSE With(_parse_type(type_ann.params[1], c), LAMBDA inner :
                  Typed(OptionType(inner.typ), inner.c))
    ELSE IF type_ann.name = "Result" THEN
        IF Len(type_ann.params) # 2
        THEN Typed(UNKNOWN, wrong_type_arity_error(c, "Result", 2, Len(type_ann.params), 0))
        ELSE With(_parse_type(type_ann.params[1], c), LAMBDA ok :
             With(_parse_type(type_ann.params[2], ok.c), LAMBDA err :
                  Typed(ResultType(ok.typ, err.typ), err.c)))
    ELSE Typed(UNKNOWN, unknown_type_error(c, type_ann.name, 0))

ArithmeticOps == {"+", "-", "*", "/", "%"}
EqualityOps == {"==", "!="}
ComparisonOps == {"==", "!=", "<", ">", "<=", ">="}

\* _check_binary_op once both operands are checked; c is the checker after them
BinaryOpType(op, left_type, right_type, c) ==
    IF TypeEq(left_type, ANY) \/ TypeEq(right_type, ANY) THEN Typed(ANY, c)
    ELSE IF op \in ArithmeticOps THEN
        IF op = "+" /\ TypeEq(left_type, STR) /\ TypeEq(right_type, STR)
        THEN Typed(STR, c)
        ELSE IF IsNumeric(left_type) /\ IsNumeric(right_type) THEN
            IF TypeEq(left_type, FLOAT) \/ TypeEq(right_type, FLOAT)
            THEN Typed(FLOAT, c)
            ELSE Typed(INT, c)
        ELSE Typed(UNKNOWN,
                   _error(c, <<"Cannot apply '", op, "' to ", left_type.name,
                               " and ", right_type.name>>, 1))
    ELSE IF op \in ComparisonOps THEN
        IF op \in EqualityOps THEN
            IF TypeEq(left_type, right_type) THEN Typed(BOOL, c)
            ELSE Typed(BOOL,
                       _error(c, <<"Cannot compare ", left_type.name, " with ",
                                   right_type.name>>, 1))
        ELSE IF IsNumeric(left_type) /\ IsNumeric(right_type) THEN Typed(BOOL, c)
        ELSE Typed(BOOL,
                   _error(c, <<"Cannot compare ", left_type.name, " with ",
                               right_type.name, " using '", op, "'">>, 1))
    ELSE Typed(UNKNOWN, c)

_check_binary_op(expr, c) ==
    With(_check_expr(expr.left, c), LAMBDA l :
    With(_check_expr(expr.right, l.c), LAMBDA r :
         BinaryOpType(expr.operator, l.typ, r.typ, r.c)))

_check_unary_op(expr, c) ==
    With(_check_expr(expr.operand, c), LAMBDA o :
         IF expr.operator = "-" THEN
             IF IsNumeric(o.typ) \/ TypeEq(o.typ, ANY)
             THEN Typed(o.typ, o.c)
             ELSE Typed(o.typ, _error(o.c, <<"Cannot negate ", o.typ.name>>, 1))
         ELSE Typed(o.typ, o.c))

\* for arg in expr.arguments: self._check_expr(arg)
_check_args(arguments, i, c) ==
    IF i > Len(arguments) THEN c
    ELSE _check_args(arguments, i + 1, _check_expr(arguments[i], c).c)

_check_some_call(expr, c) ==
    IF Len(expr.arguments) # 1
    THEN Typed(OptionType(ANY),
               _error(c, <<"Some expects exactly 1 argument, got ",
                           ToString(Len(expr.arguments))>>, 1))
    ELSE With(_check_expr(expr.arguments[1], c), LAMBDA inner :
              Typed(OptionType(inner.typ), inner.c))

_check_ok_call(expr, c) ==
    IF Len(expr.arguments) # 1
    THEN Typed(ResultType(ANY, ANY),
               _error(c, <<"Ok expects exactly 1 argument, got ",
                           ToString(Len(expr.arguments))>>, 1))
    ELSE With(_check_expr(expr.arguments[1], c), LAMBDA ok :
              Typed(ResultType(ok.typ, ANY), ok.c))

_check_err_call(expr, c) ==
    IF Len(expr.arguments) # 1
    THEN Typed(ResultType(ANY, ANY),
               _error(c, <<"Err expects exactly 1 argument, got ",
                           ToString(Len(expr.arguments))>>, 1))
    ELSE With(_check_expr(expr.arguments[1], c), LAMBDA err :
              Typed(ResultType(ANY, err.typ), err.c))

\* param_types != [ANY]
IsVarargs(param_types) == Len(param_types) = 1 /\ TypeEq(param_types[1], ANY)

\* "Check argument count (skip for varargs-like functions)"
CheckArgumentCount(expr, callee_name, param_types, c) ==
    IF ~IsVarargs(param_types) /\ Len(expr.arguments) # Len(param_types)
    THEN _error(c, <<"Function ", callee_name, " expects ", ToString(Len(param_types)),
                     " arguments, got ", ToString(Len(expr.arguments))>>, 1)
    ELSE c

\* a call of a name that is none of Some, Ok, Err
CheckNamedCall(expr, callee_name, fn_info, c) ==
    IF fn_info # NoFn THEN
        Typed(fn_info.return_type,
              _check_args(expr.arguments, 1,
                          CheckArgumentCount(expr, callee_name, fn_info.param_types, c)))
    ELSE IF TypeEq(lookup_var(c.env, callee_name), ANY)
    THEN Typed(ANY, _check_args(expr.arguments, 1, c))
    ELSE Typed(UNKNOWN, _error(c, <<"Undefined function: ", callee_name>>, 1))

_check_call(expr, c) ==
    IF expr.callee.kind = "Identifier" THEN
        IF expr.callee.name = "Some" THEN _check_some_call(expr, c)
        ELSE IF expr.callee.name = "Ok" THEN _check_ok_call(expr, c)
        ELSE IF expr.callee.name = "Err" THEN _check_err_call(expr, c)
        ELSE CheckNamedCall(expr, expr.callee.name, lookup_fn(c.env, expr.callee.name), c)
    ELSE IF expr.callee.kind = "FieldAccess" THEN
        Typed(ANY, _check_args(expr.arguments, 1, _check_expr(expr.callee, c).c))
    ELSE Typed(UNKNOWN, _check_args(expr.arguments, 1, c))

\* _check_try_expr once the operand is checked; c is the checker after it
TryExprType(operand_type, crt, c) ==
    IF operand_type.cls # "ResultType" THEN
        Typed(UNKNOWN,
              _add_diagnostic(c, "E0311",
                  <<"the '?' operator can only be applied to 'Result' types">>, 0))
    ELSE IF crt = NONE \/ crt.cls # "ResultType" THEN
        Typed(operand_type.args[1],
              _add_diagnostic(c, "E0312",
                  <<"the '?' operator can only be used in functions that return 'Result'">>,
                  0))
    ELSE IF /\ ~TypeEq(crt.args[2], ANY)
            /\ ~TypeEq(operand_type.args[2], ANY)
            /\ ~TypeEq(crt.args[2], operand_type.args[2])
    THEN Typed(operand_type.args[1],
               _add_diagnostic(c, "E0313",
                   <<"incompatible error types for '?' operator">>, 0))
    ELSE Typed(operand_type.args[1], c)

_check_try_expr(expr, c) ==
    With(_check_expr(expr.operand, c), LAMBDA o : TryExprType(o.typ, o.c.crt, o.c))

\* an Identifier that is not None
CheckName(expr, typ, c) ==
    IF typ = NONE
    THEN Typed(UNKNOWN, _error(c, <<"Undefined variable: ", expr.name>>, 1))
    ELSE Typed(typ, [c EXCEPT !.env = mark_var_used(@, expr.name)])

_check_expr(expr, c) ==
    IF expr.kind = "IntLiteral" THEN Typed(INT, c)
    ELSE IF expr.kind = "FloatLiteral" THEN Typed(FLOAT, c)
    ELSE IF expr.kind = "StringLiteral" THEN Typed(STR, c)
    ELSE IF expr.kind = "BoolLiteral" THEN Typed(BOOL, c)
    ELSE IF expr.kind = "Identifier" THEN
        IF expr.name = "None" THEN Typed(OptionType(ANY), c)
        ELSE CheckName(expr, lookup_var(c.env, expr.name), c)
    ELSE IF expr.kind = "BinaryOp" THEN _check_binary_op(expr, c)
    ELSE IF expr.kind = "UnaryOp" THEN _check_unary_op(expr, c)
    ELSE IF expr.kind = "Call" THEN _check_call(expr, c)
    ELSE IF expr.kind = "FieldAccess" THEN Typed(ANY, _check_expr(expr.object, c).c)
    ELSE IF expr.kind = "TryExpr" THEN _check_try_expr(expr, c)
    ELSE IF expr.kind = "MatchExpr" THEN _check_match_expr(expr, c)
    ELSE IF expr.kind = "IfStmt" THEN _check_if_expr(expr, c)
    ELSE Typed(UNKNOWN, c)


GetPatternName(pattern) ==
    IF pattern.kind = "SomePattern" THEN "Some"
    ELSE IF pattern.kind = "NonePattern" THEN "None"
    ELSE IF pattern.kind = "OkPattern" THEN "Ok"
    ELSE IF pattern.kind = "ErrPattern" THEN "Err"
    ELSE "Unknown"

ExpectedPatternsOfBothFamilies(subject_type) == {"Some", "None", "Ok", "Err"}

ExpectedPatterns(subject_type) ==
    IF subject_type.cls = "OptionType" THEN {"Some", "None"} ELSE {"Ok", "Err"}

\* sorted(...) of pattern names, then ', '.join(...)
SortedPatternNames == <<"Err", "None", "Ok", "Some", "Unknown">>

JoinFrom(names, i, first) ==
    IF i > Len(SortedPatternNames) THEN ""
    ELSE IF SortedPatternNames[i] \in names
    THEN (IF first THEN "" ELSE ", ") \o SortedPatternNames[i] \o JoinFrom(names, i + 1, FALSE)
    ELSE JoinFrom(names, i + 1, first)

JoinSorted(names) == JoinFrom(names, 1, TRUE)

\* an arm that leaves its scope current: what the restore must rule out
KeepArmScope(c, before) == c

\* self.env = old_env, where old_env had as many scopes as before
RestoreEnv(c, before) == [c EXCEPT !.env = SubSeq(@, 1, Len(before.env))]

BindPattern(env, subject_type, pattern) ==
    IF subject_type.cls = "OptionType" THEN
        IF pattern.kind = "SomePattern"
        THEN define_var(env, pattern.binding, subject_type.args[1], 0, FALSE)
        ELSE env
    ELSE IF pattern.kind = "OkPattern"
        THEN define_var(env, pattern.binding, subject_type.args[1], 0, FALSE)
    ELSE IF pattern.kind = "ErrPattern"
        THEN define_var(env, pattern.binding, subject_type.args[2], 0, FALSE)
    ELSE env

\* one arm of "for arm in expr.arms"; acc = found_patterns, arm_types and the checker
CheckArm(arm, subject_type, line, acc) ==
    IF GetPatternName(arm.pattern) \notin ExpectedPatterns(subject_type) THEN
        [acc EXCEPT !.c = _error(@, <<"Pattern '", GetPatternName(arm.pattern),
                                      "' is not valid for ", subject_type.name,
                                      ". Expected: ",
                                      JoinSorted(ExpectedPatterns(subject_type))>>, line)]
    ELSE
        With(_check_expr(arm.body,
                         [acc.c EXCEPT !.env =
                              BindPattern(child_scope(@), subject_type, arm.pattern)]),
             LAMBDA body :
                 [found_patterns |-> acc.found_patterns \cup {GetPatternName(arm.pattern)},
                  arm_types |-> Append(acc.arm_types, body.typ),
                  c |-> RestoreEnv(body.c, acc.c)])

MatchArmsLoop(expr, subject_type, i, acc) ==
    IF i > Len(expr.arms) THEN acc
    ELSE MatchArmsLoop(expr, subject_type, i + 1,
                       CheckArm(expr.arms[i], subject_type, 1, acc))

\* Rule 4: every arm type against the first
ArmTypesLoop(arm_types, i, line, c) ==
    IF i > Len(arm_types) THEN Typed(arm_types[1], c)
    ELSE IF TypeEq(arm_types[i], ANY) \/ TypeEq(arm_types[1], ANY)
    THEN ArmTypesLoop(arm_types, i + 1, line, c)
    ELSE IF ~TypeEq(arm_types[i], arm_types[1])
    THEN Typed(UNKNOWN,
               _error(c, <<"Match arm types must be compatible. Arm 1 has type ",
                           arm_types[1].name, ", arm ", ToString(i), " has type ",
                           arm_types[i].name>>, line))
    ELSE ArmTypesLoop(arm_types, i + 1, line, c)

\* Rule 3 naming the whole family instead of the members that are missing
CheckExhaustiveNamingFamily(expected_patterns, found_patterns, line, c) ==
    IF expected_patterns \ found_patterns # {}
    THEN _error(c, <<"Match is not exhaustive. Missing: ",
                     JoinSorted(expected_patterns)>>, line)
    ELSE c

\* Rule 3
CheckExhaustive(expected_patterns, found_patterns, line, c) ==
    IF expected_patterns \ found_patterns # {}
    THEN _error(c, <<"Match is not exhaustive. Missing: ",
                     JoinSorted(expected_patterns \ found_patterns)>>, line)
    ELSE c

\* Rule 4, or UNKNOWN for a match that checked no arm
MatchType(arm_types, c) ==
    IF Len(arm_types) = 0 THEN Typed(UNKNOWN, c)
    ELSE ArmTypesLoop(arm_types, 2, 1, c)

_check_match_expr(expr, c) ==
    With(_check_expr(expr.subject, c), LAMBDA s :
         IF s.typ.cls \notin {"OptionType", "ResultType"} THEN
             Typed(UNKNOWN,
                   _error(s.c, <<"match requires Option or Result type, got ",
                                 s.typ.name>>, 1))
         ELSE
             With(MatchArmsLoop(expr, s.typ, 1,
                      [found_patterns |-> {}, arm_types |-> <<>>, c |-> s.c]),
                  LAMBDA arms :
                      MatchType(arms.arm_types,
                                CheckExhaustive(ExpectedPatterns(s.typ),
                                                arms.found_patterns, 1, arms.c))))

\* the annotated let: the value's type against the expected one
CheckLetType(expected, value_type, c) ==
    IF ~types_compatible(expected, value_type)
    THEN _error(c, <<"Type mismatch: expected ", expected.name,
                     ", got ", value_type.name>>, 1)
    ELSE c

_check_let(stmt, c) ==
    With(_check_expr(stmt.value, c), LAMBDA v :
         IF stmt.type_annotation # NoAnnotation THEN
             With(_parse_type(stmt.type_annotation, v.c), LAMBDA e :
                  [CheckLetType(e.typ, v.typ, e.c) EXCEPT
                       !.env = define_var(@, stmt.name, e.typ, stmt.span, FALSE)])
         ELSE [v.c EXCEPT !.env = define_var(@, stmt.name, v.typ, stmt.span, FALSE)])

_check_return(stmt, c) ==
    IF stmt.value.kind # "NoNode" THEN
        With(_check_expr(stmt.value, c), LAMBDA r :
             IF r.c.crt # NONE /\ ~TypeEq(r.c.crt, VOID)
                /\ ~types_compatible(r.c.crt, r.typ)
             THEN _error(r.c, <<"Return type mismatch: expected ", r.c.crt.name,
                                ", got ", r.typ.name>>, 1)
             ELSE r.c)
    ELSE c

\* cond_type not in (BOOL, ANY, UNKNOWN)
CheckCondition(cond) ==
    IF ~(TypeEq(cond.typ, BOOL) \/ TypeEq(cond.typ, ANY) \/ TypeEq(cond.typ, UNKNOWN))
    THEN _error(cond.c, <<"Condition must be Bool, got ", cond.typ.name>>, 1)
    ELSE cond.c

_check_stmts(stmts, i, c) ==
    IF i > Len(stmts) THEN c
    ELSE _check_stmts(stmts, i + 1, _check_stmt(stmts[i], c))

_check_if(stmt, c) ==
    _check_stmts(stmt.else_body, 1,
        _check_stmts(stmt.then_body, 1,
            CheckCondition(_check_expr(stmt.condition, c))))

\* the type of a branch: its last statement first, then the statements before it
\* the last statement of a branch, with the type it gives the branch
LastOfBranch(last, c) ==
    IF last.kind = "ExprStmt" THEN _check_expr(last.expr, c)
    ELSE IF last.kind = "IfStmt" THEN _check_if_expr(last, c)
    ELSE Typed(VOID, _check_stmt(last, c))

BranchType(body, c) ==
    IF Len(body) = 0 THEN Typed(VOID, c)
    ELSE With(LastOfBranch(body[Len(body)], c), LAMBDA l :
              Typed(l.typ, _check_stmts(SubSeq(body, 1, Len(body) - 1), 1, l.c)))

\* "Both branches must have compatible types"; c is the checker after both
IfExprType(then_type, else_type, c) ==
    Typed(IF TypeEq(then_type, ANY) THEN else_type ELSE then_type,
          IF ~types_compatible(then_type, else_type)
          THEN _error(c, <<"Incompatible branch types: then has ", then_type.name,
                           ", else has ", else_type.name>>, 1)
          ELSE c)

_check_if_expr(stmt, c) ==
    With(BranchType(stmt.then_body, CheckCondition(_check_expr(stmt.condition, c))),
         LAMBDA then :
             IF Len(stmt.else_body) = 0 THEN Typed(VOID, then.c)
             ELSE With(BranchType(stmt.else_body, then.c), LAMBDA else :
                       IfExprType(then.typ, else.typ, else.c)))

_check_stmt(stmt, c) ==
    IF stmt.kind = "LetStmt" THEN _check_let(stmt, c)
    ELSE IF stmt.kind = "ExprStmt" THEN _check_expr(stmt.expr, c).c
    ELSE IF stmt.kind = "ReturnStmt" THEN _check_return(stmt, c)
    ELSE IF stmt.kind = "IfStmt" THEN _check_if(stmt, c)
    ELSE c

AnyHasReturn(stmts, i) ==
    IF i > Len(stmts) THEN FALSE
    ELSE _stmt_has_return(stmts[i]) \/ AnyHasReturn(stmts, i + 1)

_stmt_has_return(stmt) ==
    IF stmt.kind = "ReturnStmt" THEN TRUE
    ELSE IF stmt.kind = "IfStmt" THEN
        /\ AnyHasReturn(stmt.then_body, 1)
        /\ Len(stmt.else_body) > 0
        /\ AnyHasReturn(stmt.else_body, 1)
    ELSE FALSE


\* for param in fn.params
\* param_type = ANY, or the parsed annotation
ParamType(param, c) ==
    IF param.type_annotation # NoAnnotation
    THEN _parse_type(param.type_annotation, c)
    ELSE Typed(ANY, c)

ParamsLoop(params, i, c) ==
    IF i > Len(params) THEN c
    ELSE With(ParamType(params[i], c), LAMBDA t :
              ParamsLoop(params, i + 1,
                  [t.c EXCEPT !.env =
                       define_var(@, params[i].name, t.typ, params[i].span, TRUE)]))

\* one iteration of "for i, stmt in enumerate(fn.body)"; found_return_at = 0 is None
\* "Check for unreachable code after return"
WarnUnreachable(stmt, acc) ==
    IF acc.found_return_at # 0
    THEN _add_warning(acc.c, unreachable_code_warning(stmt.span))
    ELSE acc.c

\* the statement itself; c is the checker after the unreachable-code check
CheckBodyStatement(stmt, i, acc, c) ==
    IF stmt.kind = "ExprStmt" THEN
        With(_check_expr(stmt.expr, c), LAMBDA r :
             [acc EXCEPT !.c = r.c, !.last_stmt_type = r.typ])
    ELSE IF stmt.kind = "ReturnStmt" THEN
        [acc EXCEPT !.c = _check_stmt(stmt, c),
                    !.has_explicit_return = TRUE,
                    !.last_stmt_type = VOID,
                    !.found_return_at = IF @ = 0 THEN i ELSE @]
    ELSE IF stmt.kind = "IfStmt" THEN
        With(_check_if_expr(stmt, c), LAMBDA r :
             IF _stmt_has_return(stmt)
             THEN [acc EXCEPT !.c = r.c, !.last_stmt_type = r.typ,
                              !.has_explicit_return = TRUE,
                              !.found_return_at = IF @ = 0 THEN i ELSE @]
             ELSE [acc EXCEPT !.c = r.c, !.last_stmt_type = r.typ])
    ELSE [acc EXCEPT !.c = _check_stmt(stmt, c), !.last_stmt_type = VOID]

BodyStep(stmt, i, acc) == CheckBodyStatement(stmt, i, acc, WarnUnreachable(stmt, acc))

BodyLoop(body, i, acc) ==
    IF i > Len(body) THEN acc
    ELSE BodyLoop(body, i + 1, BodyStep(body[i], i, acc))

\* "Check implicit return (last expression as return value)"
MissingElseError(fn, c) ==
    _error(c, <<"Function '", fn.name, "' must return ", c.crt.name,
                " on all paths, but 'if' expression is missing 'else' branch">>, 1)

ImplicitMismatchError(last_stmt_type, c) ==
    _error(c, <<"Implicit return type mismatch: expected ", c.crt.name,
                ", got ", last_stmt_type.name>>, 1)

\* the implicit return of an if: it needs its else, and a compatible type
CheckIfReturn(fn, if_stmt, last_stmt_type, c) ==
    IF Len(if_stmt.else_body) = 0 THEN MissingElseError(fn, c)
    ELSE IF ~types_compatible(c.crt, last_stmt_type)
    THEN ImplicitMismatchError(last_stmt_type, c)
    ELSE c

CheckLastStatement(fn, last_stmt, last_stmt_type, c) ==
    IF last_stmt.kind = "ExprStmt" THEN
        IF last_stmt.expr.kind = "IfStmt"
        THEN CheckIfReturn(fn, last_stmt.expr, last_stmt_type, c)
        ELSE IF ~types_compatible(c.crt, last_stmt_type)
        THEN ImplicitMismatchError(last_stmt_type, c)
        ELSE c
    ELSE IF last_stmt.kind = "IfStmt"
    THEN CheckIfReturn(fn, last_stmt, last_stmt_type, c)
    ELSE _error(c, <<"Function '", fn.name, "' must return ", c.crt.name,
                     ", but last statement is not an expression">>, 1)

CheckImplicitReturn(fn, last_stmt_type, c) ==
    IF c.crt # NONE /\ ~TypeEq(c.crt, VOID) /\ Len(fn.body) > 0
    THEN CheckLastStatement(fn, fn.body[Len(fn.body)], last_stmt_type, c)
    ELSE c

\* "Generate warnings for unused variables and parameters"
UnusedLoop(unused, i, fn, c) ==
    IF i > Len(unused) THEN c
    ELSE UnusedLoop(unused, i + 1, fn,
             _add_warning(c,
                 IF unused[i].is_parameter
                 THEN unused_parameter_warning(unused[i].name, fn.name, unused[i].span)
                 ELSE unused_variable_warning(unused[i].name, unused[i].span)))

UnusedWarnings(fn, c) == UnusedLoop(get_unused_vars(c.env[Len(c.env)]), 1, fn, c)

\* self.env = old_env; self.current_function_return_type = None
LeaveFunction(c, old) == [RestoreEnv(c, old) EXCEPT !.crt = NONE]

\* _check_function up to the body loop: child scope, parameters, return type
\* "Set expected return type"
SetReturnType(fn_info, c) ==
    IF fn_info # NoFn THEN [c EXCEPT !.crt = fn_info.return_type] ELSE c

FunctionEntry(fn, c) ==
    SetReturnType(lookup_fn(c.env, fn.name),
                  ParamsLoop(fn.params, 1, [c EXCEPT !.env = child_scope(@)]))

\* "Check for empty body with non-void return type"
HasEmptyBodyError(fn, c) == c.crt # NONE /\ ~TypeEq(c.crt, VOID) /\ Len(fn.body) = 0

EmptyBodyExit(fn, c, old) ==
    LeaveFunction(
        _error(c, <<"Function '", fn.name, "' declares return type ",
                    c.crt.name, " but has empty body">>, 1), old)

BodyStart(c) ==
    [c |-> c, last_stmt_type |-> VOID, has_explicit_return |-> FALSE, found_return_at |-> 0]

\* _check_function after the body loop
FunctionExit(fn, b, old) ==
    IF b.has_explicit_return THEN LeaveFunction(b.c, old)
    ELSE LeaveFunction(UnusedWarnings(fn, CheckImplicitReturn(fn, b.last_stmt_type, b.c)), old)

_check_function(fn, c) ==
    With(FunctionEntry(fn, c), LAMBDA c2 :
         IF HasEmptyBodyError(fn, c2) THEN EmptyBodyExit(fn, c2, c)
         ELSE FunctionExit(fn, BodyLoop(fn.body, 1, BodyStart(c2)), c))

\* TypeChecker._register_function
\* return_type = VOID, or the parsed annotation
ReturnType(fn, c) ==
    IF fn.return_type # NoAnnotation THEN _parse_type(fn.return_type, c) ELSE Typed(VOID, c)

_register_function(fn, c) ==
    With(ReturnType(fn, c), LAMBDA r :
         [r.c EXCEPT !.env =
              define_fn(@, fn.name, [i \in 1..Len(fn.params) |-> ANY], r.typ)])

RegisterLoop(functions, i, c) ==
    IF i > Len(functions) THEN c
    ELSE RegisterLoop(functions, i + 1, _register_function(functions[i], c))

PythonImport(module, alias) ==
    [kind |-> "PythonImport", module |-> module, alias |-> alias, names |-> <<>>]
PythonFromImport(module, names) ==
    [kind |-> "PythonFromImport", module |-> module, alias |-> "", names |-> names]

ImportNamesLoop(names, i, c) ==
    IF i > Len(names) THEN c
    ELSE ImportNamesLoop(names, i + 1,
             [c EXCEPT !.env = define_var(@,
                  IF names[i].alias # "" THEN names[i].alias ELSE names[i].name,
                  ANY, 0, FALSE)])

ImportsLoop(imports, i, c) ==
    IF i > Len(imports) THEN c
    ELSE ImportsLoop(imports, i + 1,
             IF imports[i].kind = "PythonImport"
             THEN [c EXCEPT !.env = define_var(@,
                       IF imports[i].alias # "" THEN imports[i].alias
                       ELSE imports[i].module, ANY, 0, FALSE)]
             ELSE ImportNamesLoop(imports[i].names, 1, c))

FunctionsLoop(functions, i, c) ==
    IF i > Len(functions) THEN c
    ELSE FunctionsLoop(functions, i + 1, _check_function(functions[i], c))

\* TypeChecker.__init__ with _register_builtins
NewTypeChecker ==
    [env |-> define_fn(<<EmptyScope>>, "print", <<ANY>>, VOID),
     errors |-> <<>>, diagnostics |-> <<>>, warnings |-> <<>>, crt |-> NONE]

\* check() up to the second pass: reset the lists, register, import
CheckEntry(program, c) ==
    ImportsLoop(program.imports, 1,
        RegisterLoop(program.functions, 1,
            [c EXCEPT !.errors = <<>>, !.diagnostics = <<>>, !.warnings = <<>>]))

\* TypeChecker.check
check(program, c) ==
    _check_stmts(program.statements, 1,
                 FunctionsLoop(program.functions, 1, CheckEntry(program, c)))

(***************************************************************************)
(* The lowering (Transpiler).  Generated text is kept as a sequence of     *)
(* tokens that concatenate to it, every maximal run of word characters     *)
(* being one token; a statement's text is a sequence of lines.  A          *)
(* transpiler value t is the instance's fields.                            *)
(***************************************************************************)
Coded(code, t) == [code |-> code, t |-> t]

\* Transpiler.__init__
NewTranspiler == [indent_level |-> 0, _try_counter |-> 0, fault |-> FALSE]

\* Transpiler._indent
_indent(t, code) == [indent |-> t.indent_level, code |-> code]

BlankLine == [indent |-> 0, code |-> <<>>]

Indented(t) == [t EXCEPT !.indent_level = @ + 1]
Dedented(t) == [t EXCEPT !.indent_level = @ - 1]

AnyExprHasResult(exprs, i) ==
    IF i > Len(exprs) THEN FALSE
    ELSE _expr_has_result(exprs[i]) \/ AnyExprHasResult(exprs, i + 1)

_expr_has_result(expr) ==
    IF expr.kind = "TryExpr" THEN TRUE
    ELSE IF expr.kind = "Call" THEN
        \/ expr.callee.kind = "Identifier" /\ expr.callee.name \in {"Ok", "Err"}
        \/ _expr_has_result(expr.callee)
        \/ AnyExprHasResult(expr.arguments, 1)
    ELSE IF expr.kind = "BinaryOp"
        THEN _expr_has_result(expr.left) \/ _expr_has_result(expr.right)
    ELSE IF expr.kind = "UnaryOp" THEN _expr_has_result(expr.operand)
    ELSE IF expr.kind = "FieldAccess" THEN _expr_has_result(expr.object)
    ELSE FALSE

AnyStmtHasResult(stmts, i) ==
    IF i > Len(stmts) THEN FALSE
    ELSE _stmt_has_result(stmts[i]) \/ AnyStmtHasResult(stmts, i + 1)

_stmt_has_result(stmt) ==
    IF stmt.kind \in {"LetStmt", "AssignStmt"} THEN _expr_has_result(stmt.value)
    ELSE IF stmt.kind = "ExprStmt" THEN _expr_has_result(stmt.expr)
    ELSE IF stmt.kind = "ReturnStmt"
        THEN stmt.value.kind # "NoNode" /\ _expr_has_result(stmt.value)
    ELSE IF stmt.kind = "WhileStmt"
        THEN _expr_has_result(stmt.condition) \/ AnyStmtHasResult(stmt.body, 1)
    ELSE IF stmt.kind = "IfStmt" THEN
        \/ _expr_has_result(stmt.condition)
        \/ AnyStmtHasResult(stmt.then_body, 1)
        \/ AnyStmtHasResult(stmt.else_body, 1)
    ELSE FALSE

AnyFnHasResult(functions, i) ==
    IF i > Len(functions) THEN FALSE
    ELSE AnyStmtHasResult(functions[i].body, 1) \/ AnyFnHasResult(functions, i + 1)

_program_uses_result(program) ==
    AnyFnHasResult(program.functions, 1) \/ AnyStmtHasResult(program.statements, 1)

_generate_result_runtime ==
    << [indent |-> 0, code |-> <<"# ", "Result", " ", "type", " ", "runtime">>],
       [indent |-> 0, code |-> <<"class", " ", "Ok", ":">>],
       [indent |-> 1, code |-> <<"def", " ", "__init__", "(", "self", ", ", "value", "):">>],
       [indent |-> 2, code |-> <<"self", ".", "value", " = ", "value">>],
       [indent |-> 1, code |-> <<"def", " ", "__repr__", "(", "self", "):">>],
       [indent |-> 2, code |-> <<"return", " ", "f", "\"", "Ok", "({", "self", ".", "value",
                                   "!", "r", "})\"">>],
       BlankLine,
       [indent |-> 0, code |-> <<"class", " ", "Err", ":">>],
       [indent |-> 1, code |-> <<"def", " ", "__init__", "(", "self", ", ", "error", "):">>],
       [indent |-> 2, code |-> <<"self", ".", "error", " = ", "error">>],
       [indent |-> 1, code |-> <<"def", " ", "__repr__", "(", "self", "):">>],
       [indent |-> 2, code |-> <<"return", " ", "f", "\"", "Err", "({", "self", ".", "error",
                                   "!", "r", "})\"">>] >>

\* value.replace('\\', '\\\\').replace('"', '\\"') on the tokens of a string literal
EscapeFrom(value, i) ==
    IF i > Len(value) THEN <<>>
    ELSE <<IF value[i] = "\\" THEN "\\\\"
           ELSE IF value[i] = "\"" THEN "\\\""
           ELSE value[i]>> \o EscapeFrom(value, i + 1)

\* re.sub(rf'\b{re.escape(old)}\b', new, expr): every word token equal to old
ReplaceFrom(code, i, old, new) ==
    IF i > Len(code) THEN <<>>
    ELSE (IF code[i] = old THEN new ELSE <<code[i]>>) \o ReplaceFrom(code, i + 1, old, new)

replace_identifier(code, old, new) == ReplaceFrom(code, 1, old, new)

\* ", ".join(self._transpile_expr(arg) for arg in expr.arguments)
TranspileArgs(arguments, i, acc, t) ==
    IF i > Len(arguments) THEN Coded(acc, t)
    ELSE With(_transpile_expr(arguments[i], t), LAMBDA a :
              TranspileArgs(arguments, i + 1,
                            acc \o (IF i > 1 THEN <<", ">> ELSE <<>>) \o a.code, a.t))

_pattern_condition_without_none(pattern, match_var) ==
    IF pattern.kind = "SomePattern" THEN
        <<match_var, " ", "is", " ", "not", " ", "None", " ", "and", " ", "hasattr", "(",
          match_var, ", '", "value", "')">>
    ELSE IF pattern.kind = "OkPattern" THEN <<"isinstance", "(", match_var, ", ", "Ok", ")">>
    ELSE IF pattern.kind = "ErrPattern" THEN <<"isinstance", "(", match_var, ", ", "Err", ")">>
    ELSE <<"True">>

_pattern_condition(pattern, match_var) ==
    IF pattern.kind = "SomePattern" THEN
        <<match_var, " ", "is", " ", "not", " ", "None", " ", "and", " ", "hasattr", "(",
          match_var, ", '", "value", "')">>
    ELSE IF pattern.kind = "NonePattern" THEN <<match_var, " ", "is", " ", "None">>
    ELSE IF pattern.kind = "OkPattern" THEN <<"isinstance", "(", match_var, ", ", "Ok", ")">>
    ELSE IF pattern.kind = "ErrPattern" THEN <<"isinstance", "(", match_var, ", ", "Err", ")">>
    ELSE <<"True">>

_transpile_arm_body(arm, match_var, t) ==
    With(_transpile_expr(arm.body, t), LAMBDA body :
         IF arm.pattern.kind \in {"SomePattern", "OkPattern"}
         THEN Coded(replace_identifier(body.code, arm.pattern.binding,
                                       <<match_var, ".", "value">>), body.t)
         ELSE IF arm.pattern.kind = "ErrPattern"
         THEN Coded(replace_identifier(body.code, arm.pattern.binding,
                                       <<match_var, ".", "error">>), body.t)
         ELSE body)

build_conditional(arms, i, match_var, t) ==
    IF i > Len(arms) THEN Coded(<<"None">>, t)
    ELSE With(_transpile_arm_body(arms[i], match_var, t), LAMBDA body :
              IF i = Len(arms) THEN body
              ELSE With(build_conditional(arms, i + 1, match_var, body.t), LAMBDA rest :
                        Coded(<<"(">> \o body.code \o <<" ", "if", " ">>
                              \o _pattern_condition(arms[i].pattern, match_var)
                              \o <<" ", "else", " ">> \o rest.code \o <<")">>, rest.t)))

MatchVar(t) == "__match_" \o ToString(t._try_counter)

_transpile_match_expr(expr, t) ==
    With(_transpile_expr(expr.subject, t), LAMBDA subject :
    With(build_conditional(expr.arms, 1, MatchVar(subject.t),
                           [subject.t EXCEPT !._try_counter = @ + 1]),
         LAMBDA conditional :
             Coded(<<"((", "lambda", " ", MatchVar(subject.t), ": ">> \o conditional.code
                   \o <<")(">> \o subject.code \o <<"))">>, conditional.t)))

\* f"({expr.operator}{operand}": a word operator runs into a word the operand starts with
PrefixOperator(operator, code) ==
    IF operator = "not" /\ Len(code) > 0 /\ Head(code) \notin {"(", "((", "\""}
    THEN <<"(", operator \o Head(code)>> \o Tail(code)
    ELSE <<"(", operator>> \o code

_transpile_expr(expr, t) ==
    IF expr.kind = "IntLiteral" THEN Coded(<<"1">>, t)
    ELSE IF expr.kind = "FloatLiteral" THEN Coded(<<"1", ".", "5">>, t)
    ELSE IF expr.kind = "StringLiteral"
        THEN Coded(<<"\"">> \o EscapeFrom(expr.value, 1) \o <<"\"">>, t)
    ELSE IF expr.kind = "BoolLiteral" THEN Coded(<<"True">>, t)
    ELSE IF expr.kind = "Identifier" THEN Coded(<<expr.name>>, t)
    ELSE IF expr.kind = "BinaryOp" THEN
        With(_transpile_expr(expr.left, t), LAMBDA left :
        With(_transpile_expr(expr.right, left.t), LAMBDA right :
             Coded(<<"(">> \o left.code \o <<" ", expr.operator, " ">> \o right.code
                   \o <<")">>, right.t)))
    ELSE IF expr.kind = "UnaryOp" THEN
        With(_transpile_expr(expr.operand, t), LAMBDA operand :
             Coded(PrefixOperator(expr.operator, operand.code) \o <<")">>, operand.t))
    ELSE IF expr.kind = "Call" THEN
        With(_transpile_expr(expr.callee, t), LAMBDA callee :
        With(TranspileArgs(expr.arguments, 1, <<>>, callee.t), LAMBDA args :
             Coded(callee.code \o <<"(">> \o args.code \o <<")">>, args.t)))
    ELSE IF expr.kind = "FieldAccess" THEN
        With(_transpile_expr(expr.object, t), LAMBDA obj :
             Coded(obj.code \o <<".", expr.field>>, obj.t))
    ELSE IF expr.kind = "TryExpr" THEN
        With(_transpile_expr(expr.operand, t), LAMBDA operand :
             Coded(<<"(">> \o operand.code \o <<")", ".", "value">>, operand.t))
    ELSE IF expr.kind = "MatchExpr" THEN _transpile_match_expr(expr, t)
    ELSE Coded(<<>>, [t EXCEPT !.fault = TRUE])

Lined(lines, t) == [lines |-> lines, t |-> t]

\* one more line
Line(l, t, code) == Lined(Append(l.lines, _indent(t, code)), t)

TryTemp(t) == "__try_" \o ToString(t._try_counter)

\* the three lines every statement-level expansion of "expr?" starts with
TryGuard(try_expr, t) ==
    With(_transpile_expr(try_expr.operand, [t EXCEPT !._try_counter = @ + 1]),
         LAMBDA operand :
             Lined(<< _indent(operand.t, <<TryTemp(t), " = ">> \o operand.code),
                      _indent(operand.t,
                              <<"if", " ", "isinstance", "(", TryTemp(t), ", ", "Err", "):">>),
                      _indent(Indented(operand.t), <<"return", " ", TryTemp(t)>>) >>,
                   operand.t))

_transpile_let_with_try(var_name, try_expr, t) ==
    With(TryGuard(try_expr, t), LAMBDA g :
         Line(g, g.t, <<var_name, " = ", TryTemp(t), ".", "value">>))

_transpile_try_stmt(try_expr, t) == TryGuard(try_expr, t)

_transpile_return_with_try(try_expr, t) ==
    With(TryGuard(try_expr, t), LAMBDA g :
         Line(g, g.t, <<"return", " ", TryTemp(t), ".", "value">>))

\* self._indent(f"{prefix}{value}") for an expression value
ExprLine(prefix, expr, t) ==
    With(_transpile_expr(expr, t), LAMBDA value :
         Lined(<<_indent(value.t, prefix \o value.code)>>, value.t))

_transpile_let(stmt, t) ==
    IF stmt.value.kind = "TryExpr" THEN _transpile_let_with_try(stmt.name, stmt.value, t)
    ELSE ExprLine(<<stmt.name, " = ">>, stmt.value, t)

_transpile_assign(stmt, t) == ExprLine(<<stmt.name, " = ">>, stmt.value, t)

_transpile_expr_stmt(stmt, t) ==
    IF stmt.expr.kind = "TryExpr" THEN _transpile_try_stmt(stmt.expr, t)
    ELSE ExprLine(<<>>, stmt.expr, t)

_transpile_return(stmt, t) ==
    IF stmt.value.kind # "NoNode" THEN
        IF stmt.value.kind = "TryExpr" THEN _transpile_return_with_try(stmt.value, t)
        ELSE ExprLine(<<"return", " ">>, stmt.value, t)
    ELSE Lined(<<_indent(t, <<"return">>)>>, t)

\* for s in stmts[i..j]: lines.append(self._transpile_stmt(s))
TranspileStmts(stmts, i, j, t) ==
    IF i > j THEN Lined(<<>>, t)
    ELSE With(_transpile_stmt(stmts[i], t), LAMBDA first :
         With(TranspileStmts(stmts, i + 1, j, first.t), LAMBDA rest :
              Lined(first.lines \o rest.lines, rest.t)))

\* f"{keyword} {condition}:" at the current indentation
HeadLine(keyword, condition, t) ==
    With(_transpile_expr(condition, t), LAMBDA c :
         Lined(<<_indent(c.t, <<keyword, " ">> \o c.code \o <<":">>)>>, c.t))

\* lines, then a block one level deeper
Block(l, body) == Lined(l.lines \o body.lines, Dedented(body.t))

PassLine(t) == Lined(<<_indent(t, <<"pass">>)>>, t)

_transpile_while(stmt, t) ==
    With(HeadLine("while", stmt.condition, t), LAMBDA head :
         Block(head,
               IF Len(stmt.body) > 0
               THEN TranspileStmts(stmt.body, 1, Len(stmt.body), Indented(head.t))
               ELSE PassLine(Indented(head.t))))

\* "else:" and the else block, when there is one
ElseLine(l) == Line(l, l.t, <<"else", ":">>)

_transpile_if(stmt, t) ==
    With(HeadLine("if", stmt.condition, t), LAMBDA head :
    With(Block(head, TranspileStmts(stmt.then_body, 1, Len(stmt.then_body),
                                    Indented(head.t))),
         LAMBDA then :
             IF Len(stmt.else_body) > 0 THEN
                 Block(ElseLine(then),
                       TranspileStmts(stmt.else_body, 1, Len(stmt.else_body),
                                      Indented(then.t)))
             ELSE then))

_transpile_stmt(stmt, t) ==
    IF stmt.kind = "LetStmt" THEN _transpile_let(stmt, t)
    ELSE IF stmt.kind = "AssignStmt" THEN _transpile_assign(stmt, t)
    ELSE IF stmt.kind = "ExprStmt" THEN _transpile_expr_stmt(stmt, t)
    ELSE IF stmt.kind = "ReturnStmt" THEN _transpile_return(stmt, t)
    ELSE IF stmt.kind = "WhileStmt" THEN _transpile_while(stmt, t)
    ELSE IF stmt.kind = "BreakStmt" THEN Lined(<<_indent(t, <<"break">>)>>, t)
    ELSE IF stmt.kind = "ContinueStmt" THEN Lined(<<_indent(t, <<"continue">>)>>, t)
    ELSE IF stmt.kind = "IfStmt" THEN _transpile_if(stmt, t)
    ELSE Lined(<<>>, [t EXCEPT !.fault = TRUE])

\* the last statement of a returning body
ReturningLast(last, t) ==
    IF last.kind = "ExprStmt" THEN ExprLine(<<"return", " ">>, last.expr, t)
    ELSE IF last.kind = "IfStmt" THEN _transpile_if_as_return(last, t)
    ELSE _transpile_stmt(last, t)

\* a body whose last statement becomes the returned value
ReturningBody(body, t) ==
    With(TranspileStmts(body, 1, Len(body) - 1, t), LAMBDA init :
    With(ReturningLast(body[Len(body)], init.t), LAMBDA last :
         Lined(init.lines \o last.lines, last.t)))

_transpile_if_as_return(stmt, t) ==
    With(HeadLine("if", stmt.condition, t), LAMBDA head :
    With(Block(head,
               IF Len(stmt.then_body) > 0
               THEN ReturningBody(stmt.then_body, Indented(head.t))
               ELSE PassLine(Indented(head.t))),
         LAMBDA then :
             IF Len(stmt.else_body) > 0
             THEN Block(ElseLine(then), ReturningBody(stmt.else_body, Indented(then.t)))
             ELSE then))

\* ", ".join(p.name for p in fn.params)
JoinNames(params, i) ==
    IF i > Len(params) THEN <<>>
    ELSE (IF i > 1 THEN <<", ">> ELSE <<>>) \o <<params[i].name>> \o JoinNames(params, i + 1)

\* f"def {fn.name}({params}):", which is not indented
DefLine(fn, t) ==
    Lined(<<[indent |-> 0,
             code |-> <<"def", " ", fn.name, "(">> \o JoinNames(fn.params, 1) \o <<"):">>]>>, t)

_transpile_fn(fn, t) ==
    Block(DefLine(fn, t),
          IF Len(fn.body) = 0 THEN PassLine(Indented(t))
          ELSE ReturningBody(fn.body, Indented(t)))

\* ', '.join(names) over "name as alias" or "name"
RECURSIVE JoinImportNames(_, _)
JoinImportNames(names, i) ==
    IF i > Len(names) THEN <<>>
    ELSE (IF i > 1 THEN <<", ">> ELSE <<>>)
         \o (IF names[i].alias # ""
             THEN <<names[i].name, " ", "as", " ", names[i].alias>>
             ELSE <<names[i].name>>)
         \o JoinImportNames(names, i + 1)

_transpile_import(imp) ==
    IF imp.kind = "PythonImport" THEN
        IF imp.alias # ""
        THEN [indent |-> 0, code |-> <<"import", " ", imp.module, " ", "as", " ", imp.alias>>]
        ELSE [indent |-> 0, code |-> <<"import", " ", imp.module>>]
    ELSE [indent |-> 0,
          code |-> <<"from", " ", imp.module, " ", "import", " ">>
                   \o JoinImportNames(imp.names, 1)]

ImportLines(imports, i) ==
    IF i > Len(imports) THEN <<>>
    ELSE <<_transpile_import(imports[i])>> \o ImportLines(imports, i + 1)

\* for fn in program.functions: the function, then a blank line
TranspileFns(functions, i, acc, t) ==
    IF i > Len(functions) THEN Lined(acc, t)
    ELSE With(_transpile_fn(functions[i], t), LAMBDA f :
              TranspileFns(functions, i + 1, acc \o f.lines \o <<BlankLine>>, f.t))

\* the runtime, when the program needs it
RuntimeLines(program) ==
    IF _program_uses_result(program) THEN _generate_result_runtime \o <<BlankLine>> ELSE <<>>

\* the imports, with a blank line after them
ImportSection(program) ==
    ImportLines(program.imports, 1)
    \o (IF Len(program.imports) > 0 THEN <<BlankLine>> ELSE <<>>)

\* "Add main guard if there's a main function"
MainGuard(program) ==
    IF \E i \in 1..Len(program.functions) : program.functions[i].name = "main"
    THEN << BlankLine,
            [indent |-> 0,
             code |-> <<"if", " ", "__name__", " == ", "\"", "__main__", "\":">>],
            [indent |-> 1, code |-> <<"main", "()">>] >>
    ELSE <<>>

\* Transpiler.transpile
transpile(program, t) ==
    With(TranspileFns(program.functions, 1, <<>>, t), LAMBDA fns :
    With(TranspileStmts(program.statements, 1, Len(program.statements), fns.t),
         LAMBDA stmts :
             Lined(RuntimeLines(program) \o ImportSection(program) \o fns.lines
                   \o stmts.lines \o MainGuard(program), stmts.t)))

(***************************************************************************)
(* The state machine.  One TypeChecker instance checks the loaded program  *)
(* step by step; compile_source then lowers a program that has no errors.  *)
(***************************************************************************)
VARIABLES
    program,                        \* the AST handed to check / transpile
    pc,                             \* where the compilation stands
    runs,                           \* finished calls of check on this instance
    env, errors, diagnostics, warnings, current_function_return_type,
    fnIdx, stmtIdx,                 \* positions of the loops of check
    old_env,                        \* _check_function's old_env
    last_stmt_type, has_explicit_return, found_return_at,
    python_code                     \* the lines transpile returned

vars == << program, pc, runs, env, errors, diagnostics, warnings,
           current_function_return_type, fnIdx, stmtIdx, old_env,
           last_stmt_type, has_explicit_return, found_return_at, python_code >>

\* the fields of the TypeChecker instance
Checker ==
    [env |-> env, errors |-> errors, diagnostics |-> diagnostics,
     warnings |-> warnings, crt |-> current_function_return_type]

SetChecker(c) ==
    /\ env' = c.env
    /\ errors' = c.errors
    /\ diagnostics' = c.diagnostics
    /\ warnings' = c.warnings
    /\ current_function_return_type' = c.crt

\* the locals of _check_function's body loop
BodyLocals ==
    [c |-> Checker, last_stmt_type |-> last_stmt_type,
     has_explicit_return |-> has_explicit_return, found_return_at |-> found_return_at]

SetBodyLocals(b) ==
    /\ SetChecker(b.c)
    /\ last_stmt_type' = b.last_stmt_type
    /\ has_explicit_return' = b.has_explicit_return
    /\ found_return_at' = b.found_return_at

CurrentFn == program.functions[fnIdx]

\* check(): the lists are reset, the signatures and the imports registered
BeginCheck(p) ==
    /\ program' = p
    /\ SetChecker(CheckEntry(p, Checker))
    /\ pc' = "functions"
    /\ fnIdx' = 1
    /\ stmtIdx' = 1
    /\ UNCHANGED << runs, old_env, last_stmt_type, has_explicit_return,
                    found_return_at, python_code >>

\* checker.check(ast) on the program compile_source parsed
CheckStart ==
    /\ pc = "parsed"
    /\ BeginCheck(program)

\* _check_function up to its body loop, or through its empty-body exit
EnterFunction ==
    /\ pc = "functions"
    /\ fnIdx <= Len(program.functions)
    /\ IF HasEmptyBodyError(CurrentFn, FunctionEntry(CurrentFn, Checker))
       THEN /\ SetChecker(EmptyBodyExit(CurrentFn, FunctionEntry(CurrentFn, Checker),
                                        Checker))
            /\ fnIdx' = fnIdx + 1
            /\ UNCHANGED << pc, stmtIdx, old_env, last_stmt_type,
                            has_explicit_return, found_return_at >>
       ELSE /\ SetBodyLocals(BodyStart(FunctionEntry(CurrentFn, Checker)))
            /\ old_env' = env
            /\ pc' = "body"
            /\ stmtIdx' = 1
            /\ UNCHANGED fnIdx
    /\ UNCHANGED << program, runs, python_code >>

\* one iteration of the body loop of _check_function
CheckBodyStmt ==
    /\ pc = "body"
    /\ stmtIdx <= Len(CurrentFn.body)
    /\ SetBodyLocals(BodyStep(CurrentFn.body[stmtIdx], stmtIdx, BodyLocals))
    /\ stmtIdx' = stmtIdx + 1
    /\ UNCHANGED << program, pc, runs, fnIdx, old_env, python_code >>

\* _check_function after its body loop
FinishFunction ==
    /\ pc = "body"
    /\ stmtIdx > Len(CurrentFn.body)
    /\ SetChecker(FunctionExit(CurrentFn, BodyLocals, [env |-> old_env]))
    /\ pc' = "functions"
    /\ fnIdx' = fnIdx + 1
    /\ stmtIdx' = 1
    /\ UNCHANGED << program, runs, old_env, last_stmt_type, has_explicit_return,
                    found_return_at, python_code >>

\* one iteration of "for stmt in program.statements"
CheckTopLevelStmt ==
    /\ pc = "functions"
    /\ fnIdx > Len(program.functions)
    /\ stmtIdx <= Len(program.statements)
    /\ SetChecker(_check_stmt(program.statements[stmtIdx], Checker))
    /\ stmtIdx' = stmtIdx + 1
    /\ UNCHANGED << program, pc, runs, fnIdx, old_env, last_stmt_type,
                    has_explicit_return, found_return_at, python_code >>

\* return self.errors
CheckReturn ==
    /\ pc = "functions"
    /\ fnIdx > Len(program.functions)
    /\ stmtIdx > Len(program.statements)
    /\ pc' = "checked"
    /\ runs' = runs + 1
    /\ UNCHANGED << program, env, errors, diagnostics, warnings,
                    current_function_return_type, fnIdx, stmtIdx, old_env,
                    last_stmt_type, has_explicit_return, found_return_at, python_code >>

\* compile_source as it would be if a warning blocked code generation too
TranspileUnlessDiagnosed ==
    /\ pc = "checked"
    /\ IF Len(errors) + Len(warnings) > 0
       THEN /\ pc' = "CompileError"
            /\ UNCHANGED python_code
       ELSE /\ pc' = IF transpile(program, NewTranspiler).t.fault
                    THEN "ValueError" ELSE "compiled"
            /\ python_code' = transpile(program, NewTranspiler).lines
    /\ UNCHANGED << program, runs, env, errors, diagnostics, warnings,
                    current_function_return_type, fnIdx, stmtIdx, old_env,
                    last_stmt_type, has_explicit_return, found_return_at >>

\* compile_source after the check: CompileError, or transpile(ast)
Transpile ==
    /\ pc = "checked"
    /\ IF Len(errors) > 0
       THEN /\ pc' = "CompileError"
            /\ UNCHANGED python_code
       ELSE /\ pc' = IF transpile(program, NewTranspiler).t.fault
                    THEN "ValueError" ELSE "compiled"
            /\ python_code' = transpile(program, NewTranspiler).lines
    /\ UNCHANGED << program, runs, env, errors, diagnostics, warnings,
                    current_function_return_type, fnIdx, stmtIdx, old_env,
                    last_stmt_type, has_explicit_return, found_return_at >>


(***************************************************************************)
(* The programs the model is driven over.                                  *)
(***************************************************************************)
MaxBody == 2            \* statements in a generated function body
MaxArms == 2            \* arms in a generated match
MaxRuns == 2            \* calls of check on one checker instance

SeqsUpTo(S, n) == UNION { [1..k -> S] : k \in 0..n }

\* the span field of the nodes: every statement carries the next line, nested
\* bodies included, so that a warning tells which statement it is about
RECURSIVE PlaceStmts(_, _, _)
PlaceStmt(stmt, line) ==
    IF stmt.kind = "IfStmt" THEN
        LET then == PlaceStmts(stmt.then_body, 1, line + 1)
            else == PlaceStmts(stmt.else_body, 1, then.next)
        IN  [stmts |-> << [stmt EXCEPT !.span = line, !.then_body = then.stmts,
                                       !.else_body = else.stmts] >>,
             next |-> else.next]
    ELSE [stmts |-> << [stmt EXCEPT !.span = line] >>, next |-> line + 1]

PlaceStmts(stmts, i, line) ==
    IF i > Len(stmts) THEN [stmts |-> <<>>, next |-> line]
    ELSE LET first == PlaceStmt(stmts[i], line)
             rest == PlaceStmts(stmts, i + 1, first.next)
         IN  [stmts |-> first.stmts \o rest.stmts, next |-> rest.next]

\* "fn name(params) -> rt { body }" with the parameters on line 1
Fn(name, param_names, rt, body) ==
    FnDecl(name, [i \in 1..Len(param_names) |-> Parameter(param_names[i], NoAnnotation, 1)],
           PlaceStmts(body, 1, 2).stmts, rt)

OneFn(fn) == Program(<<>>, <<fn>>, <<>>)

Int1 == IntLiteral
Str1 == StringLiteral(<<"s">>)
Var(n) == ExprStmt(Identifier(n), 0)
Some1 == Call(Identifier("Some"), <<Int1>>)
Ok1 == Call(Identifier("Ok"), <<Int1>>)
IntAnn == TypeAnnotation("Int", <<>>)
ResultAnn == TypeAnnotation("Result", <<TypeAnnotation("Int", <<>>),
                                        TypeAnnotation("String", <<>>)>>)

\* bindings, uses, returns and branches
FlowStmts ==
    { LetStmt("x", Int1, NoAnnotation, 0),
      Var("x"),
      Var("a"),
      ExprStmt(Str1, 0),
      ReturnStmt(Int1, 0),
      ReturnStmt(NoNode, 0),
      IfStmt(BoolLiteral, <<ReturnStmt(Int1, 0)>>, <<ReturnStmt(Int1, 0)>>, 0),
      IfStmt(BoolLiteral, <<ReturnStmt(Int1, 0), Var("x")>>, <<>>, 0),
      IfStmt(BoolLiteral, <<Var("u"), Var("v")>>, <<ExprStmt(Int1, 0)>>, 0) }

FlowPrograms ==
    { OneFn(Fn("f", ps, rt, body)) :
        ps \in {<<>>, <<"a">>, <<"_a">>},
        rt \in {NoAnnotation, IntAnn},
        body \in SeqsUpTo(FlowStmts, MaxBody) }

\* arms over the patterns of one family
ArmBodies == { Int1, Str1, Identifier("x"), Identifier("a") }
OptionArms == { MatchArm(p, b) : p \in {SomePattern("x"), NonePattern}, b \in ArmBodies }
ResultArms == { MatchArm(p, b) : p \in {OkPattern("x"), ErrPattern("x")}, b \in ArmBodies }

Matches ==
    { MatchExpr(Some1, arms) : arms \in SeqsUpTo(OptionArms, MaxArms) }
    \cup { MatchExpr(Ok1, arms) : arms \in SeqsUpTo(ResultArms, MaxArms) }

MatchPrograms ==
    { OneFn(Fn("f", <<"a">>, NoAnnotation, before \o <<ExprStmt(m, 0)>> \o after)) :
        before \in {<<>>, <<LetStmt("x", Str1, NoAnnotation, 0)>>},
        m \in Matches,
        after \in {<<>>, <<Var("x")>>} }

\* consumers of an undefined name
Undefined == Identifier("u")
ConsumerStmts ==
    { ExprStmt(BinaryOp(Undefined, "+", Int1), 0),
      ExprStmt(BinaryOp(Int1, "<", Undefined), 0),
      ExprStmt(BinaryOp(Undefined, "==", Int1), 0),
      ExprStmt(UnaryOp("-", Undefined), 0),
      ExprStmt(UnaryOp("not", Undefined), 0),
      ExprStmt(TryExpr(Undefined), 0),
      ExprStmt(Call(Identifier("print"), <<Undefined>>), 0),
      LetStmt("x", Undefined, NoAnnotation, 0),
      LetStmt("x", Undefined, IntAnn, 0),
      ReturnStmt(Undefined, 0),
      IfStmt(Undefined, <<>>, <<>>, 0) }

ConsumerPrograms ==
    { OneFn(Fn("f", <<>>, rt, <<stmt>>)) :
        rt \in {NoAnnotation, IntAnn, ResultAnn}, stmt \in ConsumerStmts }

\* propagation in every position
TryStmts ==
    { LetStmt("x", TryExpr(Ok1), NoAnnotation, 0),
      ExprStmt(TryExpr(Ok1), 0),
      ReturnStmt(TryExpr(Call(Identifier("Ok"), <<Ok1>>)), 0),
      ExprStmt(Call(Identifier("print"), <<TryExpr(Ok1)>>), 0),
      LetStmt("x", BinaryOp(Int1, "+", TryExpr(Ok1)), NoAnnotation, 0),
      ExprStmt(Call(Identifier("Ok"), <<TryExpr(Ok1)>>), 0),
      ExprStmt(Ok1, 0) }

TryPrograms ==
    { OneFn(Fn("f", <<>>, ResultAnn, body)) : body \in SeqsUpTo(TryStmts, MaxBody) }

\* whole programs: a function, an import, a script line
ReusePrograms ==
    { Program(<<>>, <<Fn("g", <<>>, IntAnn, <<ExprStmt(Int1, 0)>>)>>, <<>>),
      Program(<<>>, <<>>, PlaceStmts(<<ExprStmt(Call(Identifier("g"), <<>>), 0)>>, 1, 1).stmts),
      Program(<<PythonImport("math", "")>>, <<>>, <<>>),
      Program(<<>>, <<>>, PlaceStmts(<<Var("math")>>, 1, 1).stmts),
      Program(<<PythonFromImport("os", <<[name |-> "getcwd", alias |-> "cwd"]>>)>>,
              <<>>, PlaceStmts(<<LetStmt("x", Int1, NoAnnotation, 0)>>, 1, 1).stmts),
      Program(<<>>, <<>>, PlaceStmts(<<Var("x"), Var("cwd")>>, 1, 1).stmts),
      Program(<<>>, <<Fn("main", <<"x">>, NoAnnotation,
                         <<ExprStmt(Call(Identifier("print"), <<Int1>>), 0)>>)>>, <<>>) }

\* a let in the branches of an if, with and without the same name outside
BlockPrograms ==
    { OneFn(Fn("f", <<>>, NoAnnotation,
               before \o <<IfStmt(BoolLiteral, then, else, 0)>> \o after)) :
        before \in { <<>>,
                     <<LetStmt("x", Int1, NoAnnotation, 0)>>,
                     <<LetStmt("x", Int1, NoAnnotation, 0), Var("x")>> },
        then \in { <<LetStmt("x", Str1, NoAnnotation, 0)>>,
                   <<LetStmt("x", Str1, NoAnnotation, 0), Var("x")>> },
        else \in { <<>>, <<LetStmt("y", Int1, NoAnnotation, 0)>> },
        after \in { <<>>, <<Var("x")>>, <<Var("y")>> } }

\* propagation of every error type out of a function of every error type
ErrOperands ==
    { Ok1,
      Call(Identifier("Err"), <<Str1>>),
      Call(Identifier("Err"), <<Int1>>),
      Call(Identifier("Err"), <<Undefined>>) }

ErrTypePrograms ==
    { OneFn(Fn("f", <<>>, TypeAnnotation("Result", <<IntAnn, err>>),
               <<ExprStmt(TryExpr(operand), 0), ExprStmt(Ok1, 0)>>)) :
        err \in {IntAnn, TypeAnnotation("String", <<>>)},
        operand \in ErrOperands }

\* two functions of every declared return type, then a script line
PropagatingBody == <<ExprStmt(TryExpr(Ok1), 0), ExprStmt(Ok1, 0)>>

TwoFnPrograms ==
    { Program(<<>>,
              <<Fn(n1, <<>>, rt1, PropagatingBody), Fn(n2, <<>>, rt2, PropagatingBody)>>,
              PlaceStmts(stmts, 1, 1).stmts) :
        n1 \in {"f"}, n2 \in {"f", "g"},
        rt1 \in {NoAnnotation, IntAnn, ResultAnn},
        rt2 \in {NoAnnotation, IntAnn, ResultAnn},
        stmts \in {<<>>, <<ExprStmt(TryExpr(Ok1), 0)>>} }

\* arm bodies that hold the letter of the binding in every kind of place
BindingBodies ==
    { Identifier("x"),
      Identifier("xs"),
      StringLiteral(<<"x">>),
      FieldAccess(Identifier("a"), "x"),
      Call(Identifier("print"), <<Identifier("x")>>) }

BindingPrograms ==
    { OneFn(Fn("f", <<"a", "xs">>, NoAnnotation, <<ExprStmt(m, 0)>>)) :
        m \in { MatchExpr(Some1, <<MatchArm(SomePattern("x"), b), MatchArm(NonePattern, Str1)>>) :
                  b \in BindingBodies }
              \cup { MatchExpr(Ok1, <<MatchArm(OkPattern("x"), b1), MatchArm(ErrPattern("x"), b2)>>) :
                       b1 \in BindingBodies, b2 \in BindingBodies } }

\* parameters named like the names the lowering makes up
TempNamePrograms ==
    { OneFn(Fn("f", <<n>>, ResultAnn,
               <<LetStmt("x", TryExpr(Ok1), NoAnnotation, 0),
                 ExprStmt(Call(Identifier("Ok"), <<Identifier(n)>>), 0)>>)) :
        n \in {"t", "__try_0", "__try_1"} }
    \cup { OneFn(Fn("f", <<n>>, NoAnnotation,
                    <<ExprStmt(MatchExpr(Some1, <<MatchArm(SomePattern("x"), Identifier(n)),
                                                  MatchArm(NonePattern, Identifier(n))>>), 0)>>)) :
             n \in {"t", "__match_0", "__match_1"} }

\* the statement kinds of nodes.py that _check_stmt does not name, in a
\* function and at top level
UncheckedStmts ==
    { AssignStmt("x", Undefined, 0),
      WhileStmt(Undefined, <<Var("v")>>, 0) }

UncheckedPrograms ==
    { OneFn(Fn("f", <<>>, NoAnnotation, <<stmt>>)) : stmt \in UncheckedStmts }
    \cup { Program(<<>>, <<>>, PlaceStmts(<<stmt>>, 1, 1).stmts) : stmt \in UncheckedStmts }

\* a final expression of every type under a declared return type of every type
FinalExprs ==
    { Int1, Str1, Ok1, Some1,
      Call(Identifier("Err"), <<Str1>>),
      Call(Identifier("Err"), <<Int1>>),
      Call(Identifier("Some"), <<Str1>>),
      Identifier("None"),
      Call(Identifier("print"), <<Int1>>) }

ImplicitPrograms ==
    { OneFn(Fn("f", <<>>, rt, <<ExprStmt(e, 0)>>)) :
        rt \in { IntAnn, TypeAnnotation("String", <<>>), ResultAnn,
                 TypeAnnotation("Option", <<IntAnn>>) },
        e \in FinalExprs }

\* arms of both families under a subject of each family
MixedArms ==
    { MatchArm(p, Int1) :
        p \in {SomePattern("x"), NonePattern, OkPattern("x"), ErrPattern("x")} }

MixedMatchPrograms ==
    { OneFn(Fn("f", <<>>, NoAnnotation, <<ExprStmt(MatchExpr(subject, arms), 0)>>)) :
        subject \in {Some1, Ok1}, arms \in SeqsUpTo(MixedArms, MaxArms) }

\* equality between operands of every type
EqualityOperands == { Int1, Str1, Identifier("a"), Undefined }

EqualityPrograms ==
    { OneFn(Fn("f", <<"a">>, NoAnnotation, <<ExprStmt(BinaryOp(l, op, r), 0)>>)) :
        l \in EqualityOperands, r \in EqualityOperands, op \in {"==", "!="} }

\* the annotation "Any" in every place an annotation can stand
AnyAnn == TypeAnnotation("Any", <<>>)
Annotations ==
    { IntAnn, AnyAnn,
      TypeAnnotation("Option", <<AnyAnn>>),
      TypeAnnotation("Result", <<AnyAnn, TypeAnnotation("String", <<>>)>>),
      TypeAnnotation("Result", <<IntAnn, AnyAnn>>) }

AnnotatedPrograms ==
    { OneFn(Fn("f", <<>>, NoAnnotation,
               <<LetStmt("x", Int1, ann, 0), ExprStmt(Call(Identifier("print"), <<Identifier("x")>>), 0)>>)) :
        ann \in {IntAnn, AnyAnn} }
    \cup { OneFn(Fn("f", <<>>, ann, <<ExprStmt(e, 0)>>)) :
             ann \in Annotations, e \in {Int1, Some1, Ok1} }
    \cup { OneFn(FnDecl("f", <<Parameter("a", ann, 1)>>,
                        PlaceStmts(<<ExprStmt(Call(Identifier("print"), <<Identifier("a")>>), 0)>>,
                                   1, 2).stmts,
                        NoAnnotation)) :
             ann \in Annotations }

\* "let mut n = v": LetStmt(n, v, mutable=True)
LetMut(n, v, sp) ==
    [kind |-> "LetStmt", name |-> n, value |-> v, type_annotation |-> NoAnnotation,
     span |-> sp, mutable |-> TRUE]

\* a binding, with and without "mut", and assignments to it
MutabilityPrograms ==
    { OneFn(Fn("f", <<>>, NoAnnotation,
               <<binding>> \o assignments
                   \o <<ExprStmt(Call(Identifier("print"), <<Identifier("x")>>), 0)>>)) :
        binding \in { LetStmt("x", Int1, NoAnnotation, 0), LetMut("x", Int1, 0) },
        assignments \in { <<>>, <<AssignStmt("x", Int1, 0)>>,
                          <<AssignStmt("x", Int1, 0), AssignStmt("x", Int1, 0)>> } }

\* "break" and "continue": the statement nodes the transpiler lowers
BreakStmt(sp) == [kind |-> "BreakStmt", span |-> sp]
ContinueStmt(sp) == [kind |-> "ContinueStmt", span |-> sp]

\* a break and a continue in a loop, in an if, in both and in neither
LoopPrograms ==
    { OneFn(Fn("f", <<>>, NoAnnotation, <<stmt>>)) :
        stmt \in UNION { { jump,
                           IfStmt(BoolLiteral, <<jump>>, <<>>, 0),
                           WhileStmt(BoolLiteral, <<jump>>, 0),
                           WhileStmt(BoolLiteral, <<IfStmt(BoolLiteral, <<jump>>, <<>>, 0)>>, 0) } :
                         jump \in {BreakStmt(0), ContinueStmt(0)} } }

\* a branch that binds y and then uses it: as its final expression, before
\* its final expression, and in the value of a later let
Branches ==
    { <<ExprStmt(Int1, 0)>>,
      <<LetStmt("y", Int1, NoAnnotation, 0), Var("y")>>,
      <<LetStmt("y", Int1, NoAnnotation, 0), Var("y"), ExprStmt(Int1, 0)>>,
      <<LetStmt("y", Int1, NoAnnotation, 0), LetStmt("z", Identifier("y"), NoAnnotation, 0)>> }

BranchPrograms ==
    { OneFn(Fn("f", <<>>, NoAnnotation, <<IfStmt(BoolLiteral, then_body, else_body, 0)>>)) :
        then_body \in Branches, else_body \in Branches }

\* a function of no, one or two parameters, or print, called at the top level
\* with no, one or two arguments
ParameterLists == { <<>>, <<"a">>, <<"a", "b">> }
ArgumentLists == { <<>>, <<Int1>>, <<Int1, Int1>> }

ArityPrograms ==
    { Program(<<>>, <<Fn("g", ps, NoAnnotation, <<ExprStmt(Int1, 0)>>)>>,
              PlaceStmts(<<ExprStmt(Call(Identifier(callee), as), 0)>>, 1, 1).stmts) :
        ps \in ParameterLists, as \in ArgumentLists, callee \in {"g", "print"} }

Programs ==
    FlowPrograms \cup MatchPrograms \cup ConsumerPrograms \cup TryPrograms \cup ReusePrograms
        \cup BlockPrograms \cup ErrTypePrograms \cup TwoFnPrograms \cup BindingPrograms
        \cup TempNamePrograms \cup UncheckedPrograms \cup ImplicitPrograms
        \cup MixedMatchPrograms \cup EqualityPrograms \cup AnnotatedPrograms
        \cup MutabilityPrograms \cup LoopPrograms \cup BranchPrograms
        \cup ArityPrograms

Start(p) ==
    /\ program = p
    /\ pc = "parsed"
    /\ runs = 0
    /\ env = NewTypeChecker.env
    /\ errors = NewTypeChecker.errors
    /\ diagnostics = NewTypeChecker.diagnostics
    /\ warnings = NewTypeChecker.warnings
    /\ current_function_return_type = NewTypeChecker.crt
    /\ fnIdx = 1
    /\ stmtIdx = 1
    /\ old_env = <<>>
    /\ last_stmt_type = VOID
    /\ has_explicit_return = FALSE
    /\ found_return_at = 0
    /\ python_code = <<>>

\* compile_source: one new checker for one program
Init == \E p \in Programs : Start(p)

Next ==
    \/ CheckStart
    \/ EnterFunction
    \/ CheckBodyStmt
    \/ FinishFunction
    \/ CheckTopLevelStmt
    \/ CheckReturn
    \/ Transpile

Spec == Init /\ [][Next]_vars

\* one checker instance reused: check is called again with another program
CheckAgain ==
    /\ pc = "checked"
    /\ runs < MaxRuns
    /\ \E p \in ReusePrograms : BeginCheck(p)

InitReuse == \E p \in ReusePrograms : Start(p)

NextReuse ==
    \/ CheckStart
    \/ EnterFunction
    \/ CheckBodyStmt
    \/ FinishFunction
    \/ CheckTopLevelStmt
    \/ CheckReturn
    \/ Transpile
    \/ CheckAgain

SpecReuse == InitReuse /\ [][NextReuse]_vars

\* a later run as it would be if the lists were shared by all checkers and
\* only ever appended to
CheckAppending ==
    /\ pc = "checked"
    /\ runs < MaxRuns
    /\ SetChecker([check(program, NewTypeChecker) EXCEPT
                       !.errors = errors \o @,
                       !.diagnostics = diagnostics \o @,
                       !.warnings = warnings \o @])
    /\ runs' = runs + 1
    /\ UNCHANGED << program, pc, fnIdx, stmtIdx, old_env, last_stmt_type,
                    has_explicit_return, found_return_at, python_code >>

\* checker = TypeChecker(); checker.check(ast) once more on the same AST
CheckAfresh ==
    /\ pc = "checked"
    /\ runs < MaxRuns
    /\ SetChecker(check(program, NewTypeChecker))
    /\ runs' = runs + 1
    /\ UNCHANGED << program, pc, fnIdx, stmtIdx, old_env, last_stmt_type,
                    has_explicit_return, found_return_at, python_code >>

NextAfresh ==
    \/ CheckStart
    \/ EnterFunction
    \/ CheckBodyStmt
    \/ FinishFunction
    \/ CheckTopLevelStmt
    \/ CheckReturn
    \/ Transpile
    \/ CheckAfresh

SpecAfresh == Init /\ [][NextAfresh]_vars

\* the stepwise check agrees with check() run in one piece
StepwiseIsCheck ==
    pc = "checked" /\ runs = 1 =>
        /\ errors = check(program, NewTypeChecker).errors
        /\ warnings = check(program, NewTypeChecker).warnings
        /\ env = check(program, NewTypeChecker).env


(***************************************************************************)
(* The claims.                                                             *)
(***************************************************************************)
\* what a step appended to a list
Appended(before, after) == SubSeq(after, Len(before) + 1, Len(after))
NewErrors == Appended(errors, errors')
NewWarnings == Appended(warnings, warnings')

\* the step that ends the check of a function's body
FunctionFinishes == pc = "body" /\ stmtIdx > Len(CurrentFn.body)

\* the step that checks one statement of a function's body
BodyStmtChecked == pc = "body" /\ stmtIdx <= Len(CurrentFn.body)

\* C1: checking P1 and then P2 on one checker instance gives for P2 exactly
\* the errors and the warnings a newly created checker gives for P2.
C1_ReusedCheckerLikeFresh ==
    pc = "checked" =>
        /\ errors = check(program, NewTypeChecker).errors
        /\ warnings = check(program, NewTypeChecker).warnings

\* the unused warnings among ws that name a binding
UnusedWarningsFor(ws, info) ==
    { i \in 1..Len(ws) :
        /\ ws[i].code = (IF info.is_parameter THEN "W0102" ELSE "W0101")
        /\ ws[i].message[2] = info.name }

\* C2: when the check of a function body finishes, each binding of the
\* function's own scope yields exactly one unused warning (W0102 for a
\* parameter, W0101 for a variable) if it was never used and its name does not
\* start with an underscore, and none otherwise.
C2_OneUnusedWarningPerBinding ==
    [][FunctionFinishes =>
          \A k \in 1..Len(env[Len(env)].var_info) :
              LET info == env[Len(env)].var_info[k]
              IN  Cardinality(UnusedWarningsFor(NewWarnings, info))
                      = IF ~info.used /\ ~StartsWithUnderscore(info.name) THEN 1 ELSE 0]_vars

\* the type the checker gives an expression in the function's scope
TypeInScope(expr) == _check_expr(expr, Checker).typ

\* every path through the statements ends in a return of a value compatible
\* with the declared type, or in a final expression compatible with it
RECURSIVE EveryPathReturns(_)
EveryPathReturns(stmts) ==
    IF Len(stmts) = 0 THEN FALSE
    ELSE IF Head(stmts).kind = "ReturnStmt" THEN
        /\ Head(stmts).value.kind # "NoNode"
        /\ types_compatible(current_function_return_type, TypeInScope(Head(stmts).value))
    ELSE IF Head(stmts).kind = "IfStmt" THEN
        /\ EveryPathReturns(Head(stmts).then_body \o Tail(stmts))
        /\ EveryPathReturns(Head(stmts).else_body \o Tail(stmts))
    ELSE IF Len(stmts) = 1 THEN
        /\ Head(stmts).kind = "ExprStmt"
        /\ types_compatible(current_function_return_type, TypeInScope(Head(stmts).expr))
    ELSE EveryPathReturns(Tail(stmts))

\* C3: if the checker reports no error for a function declared with a
\* non-Void return type R, every path through its body ends in an explicit
\* return of a value compatible with R or in a final expression compatible
\* with R.
C3_NoErrorMeansEveryPathReturns ==
    [][(/\ FunctionFinishes
        /\ current_function_return_type # NONE
        /\ ~TypeEq(current_function_return_type, VOID)
        /\ errors' = <<>>)
          => EveryPathReturns(CurrentFn.body)]_vars

\* the statement a body step checks is a match
MatchChecked ==
    /\ BodyStmtChecked
    /\ CurrentFn.body[stmtIdx].kind = "ExprStmt"
    /\ CurrentFn.body[stmtIdx].expr.kind = "MatchExpr"

CheckedMatch == CurrentFn.body[stmtIdx].expr

\* the members of the family of the subject's type
Family(m) ==
    IF TypeInScope(m.subject).cls = "OptionType" THEN {"Some", "None"} ELSE {"Ok", "Err"}

Covered(m) == { GetPatternName(m.arms[i].pattern) : i \in 1..Len(m.arms) }

\* the text that names exactly these members
MemberNames(members) ==
    IF members = {"None"} THEN "None"
    ELSE IF members = {"Some"} THEN "Some"
    ELSE IF members = {"Some", "None"} THEN "None, Some"
    ELSE IF members = {"Ok"} THEN "Ok"
    ELSE IF members = {"Err"} THEN "Err"
    ELSE IF members = {"Ok", "Err"} THEN "Err, Ok"
    ELSE ""

NonExhaustiveErrors(errs) ==
    { i \in 1..Len(errs) : errs[i].message[1] = "Match is not exhaustive. Missing: " }

LastMatch == CurrentFn.body[stmtIdx - 1].expr

MatchWasChecked ==
    /\ pc = "body"
    /\ stmtIdx > 1
    /\ CurrentFn.body[stmtIdx - 1].kind = "ExprStmt"
    /\ LastMatch.kind = "MatchExpr"

RECURSIVE TryOccurrences(_), TryOccurrencesIn(_, _), StmtTryOccurrences(_, _)
\* the occurrences of "?" in an expression
TryOccurrences(expr) ==
    IF expr.kind = "TryExpr" THEN 1 + TryOccurrences(expr.operand)
    ELSE IF expr.kind = "Call"
        THEN TryOccurrences(expr.callee) + TryOccurrencesIn(expr.arguments, 1)
    ELSE IF expr.kind = "BinaryOp"
        THEN TryOccurrences(expr.left) + TryOccurrences(expr.right)
    ELSE IF expr.kind = "UnaryOp" THEN TryOccurrences(expr.operand)
    ELSE 0

TryOccurrencesIn(exprs, i) ==
    IF i > Len(exprs) THEN 0
    ELSE TryOccurrences(exprs[i]) + TryOccurrencesIn(exprs, i + 1)

\* the occurrences of "?" in statements
StmtTryOccurrences(stmts, i) ==
    IF i > Len(stmts) THEN 0
    ELSE StmtTryOccurrences(stmts, i + 1) +
         (IF stmts[i].kind = "LetStmt" THEN TryOccurrences(stmts[i].value)
          ELSE IF stmts[i].kind = "ExprStmt" THEN TryOccurrences(stmts[i].expr)
          ELSE IF stmts[i].kind = "ReturnStmt" /\ stmts[i].value.kind # "NoNode"
              THEN TryOccurrences(stmts[i].value)
          ELSE IF stmts[i].kind = "IfStmt"
              THEN TryOccurrences(stmts[i].condition)
                   + StmtTryOccurrences(stmts[i].then_body, 1)
                   + StmtTryOccurrences(stmts[i].else_body, 1)
          ELSE 0)

\* the lines where a temporary is stored and, on the next two lines, tested
\* for the failure variant and returned
GuardedStores(code) ==
    { i \in 1..(Len(code) - 2) :
        \E n \in 0..Len(code) :
            /\ Len(code[i].code) > 2
            /\ code[i].code[1] = "__try_" \o ToString(n)
            /\ code[i].code[2] = " = "
            /\ code[i + 1] = [indent |-> code[i].indent,
                              code |-> <<"if", " ", "isinstance", "(",
                                         "__try_" \o ToString(n), ", ", "Err", "):">>]
            /\ code[i + 2] = [indent |-> code[i].indent + 1,
                              code |-> <<"return", " ", "__try_" \o ToString(n)>>] }

\* C5: every occurrence of "?" in a function body, whatever its position, is
\* lowered to code that stores the operand in a temporary, then tests the
\* temporary for the failure variant and returns it, and only then reads the
\* success payload: the lowered function holds one such store, test and return
\* per occurrence.
C5_EveryTryIsGuarded ==
    (pc = "compiled" /\ Len(program.functions) = 1) =>
        Cardinality(GuardedStores(python_code))
            = StmtTryOccurrences(program.functions[1].body, 1)

\* C6: a construct that consumes a sub-expression of type Unknown reports no
\* diagnostic of its own on account of it: checking a statement that consumes
\* the undefined name adds the error of the name and nothing else.
C6_UnknownIsSilent ==
    [][(BodyStmtChecked /\ program \in ConsumerPrograms) =>
          NewErrors = << TypeError(<<"Undefined variable: ", Undefined.name>>, 1, 1) >>]_vars

RECURSIVE Blocks(_), NestedBlocks(_, _)
\* a statement list and the statement lists nested in it
Blocks(stmts) == {stmts} \cup NestedBlocks(stmts, 1)

NestedBlocks(stmts, i) ==
    IF i > Len(stmts) THEN {}
    ELSE NestedBlocks(stmts, i + 1) \cup
         (IF stmts[i].kind = "IfStmt"
          THEN Blocks(stmts[i].then_body) \cup Blocks(stmts[i].else_body)
          ELSE {})

\* the blocks of the program's functions
FunctionBlocks ==
    UNION { Blocks(program.functions[f].body) : f \in 1..Len(program.functions) }

UndefinedErrors(errs, n) ==
    { k \in 1..Len(errs) : errs[k].message = <<"Undefined variable: ", n>> }

\* the statement is a use of a name whose one error is the statement's
CausesOneError(stmt) ==
    /\ stmt.kind = "ExprStmt"
    /\ stmt.expr.kind = "Identifier"
    /\ Cardinality(UndefinedErrors(errors, stmt.expr.name)) = 1

\* C7: errors come in source order: when s1 precedes s2 in a block and both
\* cause errors, the errors of s1 are before the errors of s2 in the list.
C7_ErrorsInSourceOrder ==
    pc = "checked" =>
        \A block \in FunctionBlocks :
            \A i, j \in 1..Len(block) :
                (/\ i < j
                 /\ CausesOneError(block[i])
                 /\ CausesOneError(block[j])
                 /\ block[i].expr.name # block[j].expr.name)
                    => \A k1 \in UndefinedErrors(errors, block[i].expr.name) :
                           \A k2 \in UndefinedErrors(errors, block[j].expr.name) : k1 < k2

RECURSIVE HoldsReturn(_)
\* a return statement, or an if/else whose two branches both return
HoldsReturn(stmt) ==
    \/ stmt.kind = "ReturnStmt"
    \/ /\ stmt.kind = "IfStmt"
       /\ \E i \in 1..Len(stmt.then_body) : HoldsReturn(stmt.then_body[i])
       /\ \E i \in 1..Len(stmt.else_body) : HoldsReturn(stmt.else_body[i])

UnreachableWarnings == { k \in 1..Len(warnings) : warnings[k].code = "W0201" }

\* C8: every statement that follows a return (or an if/else whose branches
\* both return) in the same block gets exactly one W0201, no statement at or
\* before the first return gets one, and the warnings are in statement order.
C8_UnreachableAfterReturn ==
    pc = "checked" =>
        /\ \A block \in FunctionBlocks :
               \A j \in 1..Len(block) :
                   Cardinality({ k \in UnreachableWarnings :
                                     warnings[k].span = block[j].span })
                       = IF \E i \in 1..(j - 1) : HoldsReturn(block[i]) THEN 1 ELSE 0
        /\ \A k1, k2 \in UnreachableWarnings :
               k1 < k2 => warnings[k1].span < warnings[k2].span

\* the type of an arm's body where the arm's pattern is bound
ArmType(m, i) ==
    _check_expr(m.arms[i].body,
                [Checker EXCEPT !.env = BindPattern(child_scope(@), TypeInScope(m.subject),
                                                    m.arms[i].pattern)]).typ

ArmTypeErrors(errs) ==
    { k \in 1..Len(errs) :
        errs[k].message[1] = "Match arm types must be compatible. Arm 1 has type " }

\* C9: for a match whose patterns are valid, the arm-type error is reported
\* if and only if the types of some two arm bodies are incompatible under the
\* compatibility relation.
C9_ArmTypeErrorIffIncompatible ==
    [][(MatchChecked /\ Covered(CheckedMatch) \subseteq Family(CheckedMatch)) =>
          (ArmTypeErrors(NewErrors) # {}
              <=> \E i, j \in 1..Len(CheckedMatch.arms) :
                      ~types_compatible(ArmType(CheckedMatch, i), ArmType(CheckedMatch, j)))]_vars

\* the names and the types bound in every scope
Bindings(e) ==
    [s \in 1..Len(e) |->
        [k \in 1..Len(e[s].var_info) |-> <<e[s].var_info[k].name, e[s].var_info[k].typ>>]]

\* the arms that use the name in their body and do not bind it
UsesUnbound(m, n) ==
    { i \in 1..Len(m.arms) :
        m.arms[i].body = Identifier(n) /\ m.arms[i].pattern.binding # n }

\* C10: a name bound by a pattern is visible only in its arm: after the match
\* the scope is the one from before, an outer binding of the same name keeps
\* its type, and a use of the name in another arm sees the outer binding or
\* is undefined.
C10_PatternBindingStaysInArm ==
    [][(MatchChecked /\ Covered(CheckedMatch) \subseteq Family(CheckedMatch)) =>
          /\ Bindings(env') = Bindings(env)
          /\ lookup_var(env', "x") = lookup_var(env, "x")
          /\ Cardinality(UndefinedErrors(NewErrors, "x"))
                 = IF lookup_var(env, "x") = NONE
                   THEN Cardinality(UsesUnbound(CheckedMatch, "x"))
                   ELSE 0]_vars

\* C10 witness: after a match whose Some arm bound x to an Int, the x bound
\* before the match is still a String
C10_Witness ==
    /\ MatchWasChecked
    /\ \E i \in 1..Len(LastMatch.arms) :
           /\ LastMatch.arms[i].pattern = SomePattern("x")
           /\ LastMatch.arms[i].body = Identifier("x")
    /\ stmtIdx = 3
    /\ CurrentFn.body[1].kind = "LetStmt"
    /\ lookup_var(env, "x") = STR

\* the statement a body step checks
CheckedStmt == CurrentFn.body[stmtIdx]

\* the name a block binds with its first statement
LetFirst(block) ==
    IF Len(block) > 0 /\ block[1].kind = "LetStmt" THEN {block[1].name} ELSE {}

\* a statement of the block is a use of the name
UsesName(block, n) ==
    \E i \in 1..Len(block) :
        block[i].kind = "ExprStmt" /\ block[i].expr = Identifier(n)

\* the names one branch binds first and the other branch does not use
BlockNames(stmt) ==
    { n \in LetFirst(stmt.then_body) : ~UsesName(stmt.else_body, n) }
        \cup { n \in LetFirst(stmt.else_body) : ~UsesName(stmt.then_body, n) }

\* the used flag of the binding a name resolves to, if it resolves
UsedFlag(e, n) ==
    IF \A i \in 1..Len(e) : ~HasVar(e[i], n) THEN "unbound"
    ELSE LET i == CHOOSE k \in 1..Len(e) :
                      HasVar(e[k], n) /\ \A j \in (k + 1)..Len(e) : ~HasVar(e[j], n)
         IN  IF e[i].var_info[VarIndex(e[i], n)].used THEN "used" ELSE "unused"

\* C11: a let inside the block of an if or an else lives in that block: after
\* the if the name resolves as it did before, to nothing or to the binding of
\* the enclosing scope with its own type and its own used flag.
C11_BlockLetStaysInBlock ==
    [][(BodyStmtChecked /\ CheckedStmt.kind = "IfStmt") =>
          \A n \in BlockNames(CheckedStmt) :
              /\ lookup_var(env', n) = lookup_var(env, n)
              /\ UsedFlag(env', n) = UsedFlag(env, n)]_vars

NewDiagnostics == Appended(diagnostics, diagnostics')

\* the diagnostics of one code among those a step appends
WithCode(diags, code) == { i \in 1..Len(diags) : diags[i].code = code }

\* the step checks "operand?" as a statement of a function that returns a Result
TryInResultFn ==
    /\ BodyStmtChecked
    /\ CheckedStmt.kind = "ExprStmt"
    /\ CheckedStmt.expr.kind = "TryExpr"
    /\ TypeInScope(CheckedStmt.expr.operand).cls = "ResultType"
    /\ current_function_return_type # NONE
    /\ current_function_return_type.cls = "ResultType"

\* C12: for "?" on an operand of type Result[T, E] in a function that returns
\* Result[_, E'], the error-type-mismatch error is reported if and only if E and
\* E' are not compatible, where Any or Unknown on either side is compatible.
C12_TryMismatchIffIncompatible ==
    [][TryInResultFn =>
          (WithCode(NewDiagnostics, "E0313") # {}
              <=> ~types_compatible(current_function_return_type.args[2],
                                    TypeInScope(CheckedStmt.expr.operand).args[2]))]_vars

\* the function is declared with "-> Result[T, E]"
DeclaredResult(fn) == fn.return_type.name = "Result" /\ Len(fn.return_type.params) = 2

TopLevelStmtChecked ==
    pc = "functions" /\ fnIdx > Len(program.functions) /\ stmtIdx <= Len(program.statements)

\* the statement is "operand?" and the operand has a Result type
PropagatesResult(stmt) ==
    /\ stmt.kind = "ExprStmt"
    /\ stmt.expr.kind = "TryExpr"
    /\ TypeInScope(stmt.expr.operand).cls = "ResultType"

\* C13: "?" on an operand of a Result type gets exactly one E0312 error at top
\* level and in a function whose declared return type is not a Result, and none
\* in a function declared to return a Result, whatever was checked before.
C13_TryOutsideResultFn ==
    [][/\ (BodyStmtChecked /\ PropagatesResult(CheckedStmt)) =>
              Cardinality(WithCode(NewDiagnostics, "E0312"))
                  = IF DeclaredResult(CurrentFn) THEN 0 ELSE 1
       /\ (TopLevelStmtChecked /\ PropagatesResult(program.statements[stmtIdx])) =>
              Cardinality(WithCode(NewDiagnostics, "E0312")) = 1]_vars

RECURSIVE MentionsResult(_), AnyMentionsResult(_, _), BlockMentionsResult(_, _)

\* the expression holds a "?", an Ok(...) or an Err(...) at any depth
MentionsResult(expr) ==
    IF expr.kind = "TryExpr" THEN TRUE
    ELSE IF expr.kind = "Call" THEN
        \/ expr.callee.kind = "Identifier" /\ expr.callee.name \in {"Ok", "Err"}
        \/ MentionsResult(expr.callee)
        \/ AnyMentionsResult(expr.arguments, 1)
    ELSE IF expr.kind = "BinaryOp"
        THEN MentionsResult(expr.left) \/ MentionsResult(expr.right)
    ELSE IF expr.kind = "UnaryOp" THEN MentionsResult(expr.operand)
    ELSE IF expr.kind = "FieldAccess" THEN MentionsResult(expr.object)
    ELSE IF expr.kind = "MatchExpr" THEN
        \/ MentionsResult(expr.subject)
        \/ \E i \in 1..Len(expr.arms) : MentionsResult(expr.arms[i].body)
    ELSE FALSE

AnyMentionsResult(exprs, i) ==
    IF i > Len(exprs) THEN FALSE
    ELSE MentionsResult(exprs[i]) \/ AnyMentionsResult(exprs, i + 1)

\* a statement of the block does, nested blocks included
BlockMentionsResult(stmts, i) ==
    IF i > Len(stmts) THEN FALSE
    ELSE \/ BlockMentionsResult(stmts, i + 1)
         \/ IF stmts[i].kind \in {"LetStmt", "AssignStmt"} THEN MentionsResult(stmts[i].value)
            ELSE IF stmts[i].kind = "ExprStmt" THEN MentionsResult(stmts[i].expr)
            ELSE IF stmts[i].kind = "ReturnStmt"
                THEN stmts[i].value.kind # "NoNode" /\ MentionsResult(stmts[i].value)
            ELSE IF stmts[i].kind = "WhileStmt"
                THEN MentionsResult(stmts[i].condition)
                     \/ BlockMentionsResult(stmts[i].body, 1)
            ELSE IF stmts[i].kind = "IfStmt"
                THEN \/ MentionsResult(stmts[i].condition)
                     \/ BlockMentionsResult(stmts[i].then_body, 1)
                     \/ BlockMentionsResult(stmts[i].else_body, 1)
            ELSE FALSE

ProgramMentionsResult(p) ==
    \/ \E i \in 1..Len(p.functions) : BlockMentionsResult(p.functions[i].body, 1)
    \/ BlockMentionsResult(p.statements, 1)

\* the lines of the output that open the Ok class and the Err class
ShimLines(code, class) ==
    { i \in 1..Len(code) : code[i] = [indent |-> 0, code |-> <<"class", " ", class, ":">>] }

\* C14: the output holds the Ok/Err runtime exactly once when the program holds
\* a "?", an Ok(...) or an Err(...) anywhere, in a function body or a top-level
\* statement at any nesting depth, and not at all otherwise.
C14_ShimIffResultUsed ==
    pc = "compiled" =>
        /\ Cardinality(ShimLines(python_code, "Ok"))
               = IF ProgramMentionsResult(program) THEN 1 ELSE 0
        /\ Cardinality(ShimLines(python_code, "Err"))
               = IF ProgramMentionsResult(program) THEN 1 ELSE 0

RECURSIVE Bound(_, _, _)

\* the expression with every occurrence of the identifier n that refers to the
\* binding replaced by the expression that reads the payload
Bound(expr, n, payload) ==
    IF expr.kind = "Identifier" THEN (IF expr.name = n THEN payload ELSE expr)
    ELSE IF expr.kind = "BinaryOp"
        THEN BinaryOp(Bound(expr.left, n, payload), expr.operator,
                      Bound(expr.right, n, payload))
    ELSE IF expr.kind = "UnaryOp" THEN UnaryOp(expr.operator, Bound(expr.operand, n, payload))
    ELSE IF expr.kind = "Call"
        THEN Call(Bound(expr.callee, n, payload),
                  [i \in 1..Len(expr.arguments) |-> Bound(expr.arguments[i], n, payload)])
    ELSE IF expr.kind = "FieldAccess"
        THEN FieldAccess(Bound(expr.object, n, payload), expr.field)
    ELSE IF expr.kind = "TryExpr" THEN TryExpr(Bound(expr.operand, n, payload))
    ELSE IF expr.kind = "MatchExpr"
        THEN MatchExpr(Bound(expr.subject, n, payload),
                       [i \in 1..Len(expr.arms) |->
                           IF expr.arms[i].pattern.binding = n THEN expr.arms[i]
                           ELSE MatchArm(expr.arms[i].pattern,
                                         Bound(expr.arms[i].body, n, payload))])
    ELSE expr

\* the arm with its binding written out: the pattern binds a name that occurs
\* nowhere and the body reads the payload of the subject's temporary
WrittenOut(arm, match_var) ==
    IF arm.pattern.kind \in {"SomePattern", "OkPattern"}
    THEN MatchArm([arm.pattern EXCEPT !.binding = "_"],
                  Bound(arm.body, arm.pattern.binding, FieldAccess(Identifier(match_var), "value")))
    ELSE IF arm.pattern.kind = "ErrPattern"
    THEN MatchArm([arm.pattern EXCEPT !.binding = "_"],
                  Bound(arm.body, arm.pattern.binding, FieldAccess(Identifier(match_var), "error")))
    ELSE arm

\* the function's body is one match and nothing else takes a temporary
OnlyAMatch(p) ==
    /\ Len(p.functions) = 1
    /\ Len(p.statements) = 0
    /\ Len(p.functions[1].body) = 1
    /\ p.functions[1].body[1].kind = "ExprStmt"
    /\ p.functions[1].body[1].expr.kind = "MatchExpr"
    /\ TryOccurrences(p.functions[1].body[1].expr.subject) = 0
    /\ \A i \in 1..Len(p.functions[1].body[1].expr.arms) :
           p.functions[1].body[1].expr.arms[i].body.kind # "MatchExpr"

WithArmsWrittenOut(p) ==
    [p EXCEPT !.functions[1].body[1].expr.arms =
         [i \in 1..Len(@) |-> WrittenOut(@[i], "__match_0")]]

\* C15: lowering an arm replaces the occurrences of the bound identifier that
\* refer to the binding and nothing else: not a longer identifier that holds
\* the name, not the text of a string literal, not a field name. The output
\* is the output of the program whose arms have their binding written out.
C15_OnlyBoundOccurrencesReplaced ==
    (pc = "compiled" /\ OnlyAMatch(program)) =>
        python_code = transpile(WithArmsWrittenOut(program), NewTranspiler).lines

RECURSIVE IdentifiersOf(_), IdentifiersIn(_, _)

\* the identifiers the source writes in an expression
IdentifiersOf(expr) ==
    IF expr.kind = "Identifier" THEN {expr.name}
    ELSE IF expr.kind = "BinaryOp" THEN IdentifiersOf(expr.left) \cup IdentifiersOf(expr.right)
    ELSE IF expr.kind \in {"UnaryOp", "TryExpr"} THEN IdentifiersOf(expr.operand)
    ELSE IF expr.kind = "Call"
        THEN IdentifiersOf(expr.callee)
             \cup UNION { IdentifiersOf(expr.arguments[i]) : i \in 1..Len(expr.arguments) }
    ELSE IF expr.kind = "FieldAccess" THEN IdentifiersOf(expr.object) \cup {expr.field}
    ELSE IF expr.kind = "MatchExpr"
        THEN IdentifiersOf(expr.subject)
             \cup UNION { IdentifiersOf(expr.arms[i].body) \cup {expr.arms[i].pattern.binding} :
                          i \in 1..Len(expr.arms) }
    ELSE {}

\* and in the statements of a block
IdentifiersIn(stmts, i) ==
    IF i > Len(stmts) THEN {}
    ELSE IdentifiersIn(stmts, i + 1) \cup
         (IF stmts[i].kind \in {"LetStmt", "AssignStmt"}
              THEN {stmts[i].name} \cup IdentifiersOf(stmts[i].value)
          ELSE IF stmts[i].kind = "ExprStmt" THEN IdentifiersOf(stmts[i].expr)
          ELSE IF stmts[i].kind = "ReturnStmt"
              THEN (IF stmts[i].value.kind = "NoNode" THEN {}
                    ELSE IdentifiersOf(stmts[i].value))
          ELSE IF stmts[i].kind = "WhileStmt"
              THEN IdentifiersOf(stmts[i].condition) \cup IdentifiersIn(stmts[i].body, 1)
          ELSE IF stmts[i].kind = "IfStmt"
              THEN IdentifiersOf(stmts[i].condition)
                   \cup IdentifiersIn(stmts[i].then_body, 1)
                   \cup IdentifiersIn(stmts[i].else_body, 1)
          ELSE {})

SourceIdentifiers(p) ==
    IdentifiersIn(p.statements, 1)
    \cup UNION { {p.functions[i].name}
                 \cup { p.functions[i].params[k].name : k \in 1..Len(p.functions[i].params) }
                 \cup IdentifiersIn(p.functions[i].body, 1) : i \in 1..Len(p.functions) }

\* the places of the output that introduce a temporary: the guarded store of
\* a "?" and the parameter of the lambda of a match
TemporaryPlaces(code) ==
    { <<i, 1>> : i \in GuardedStores(code) }
    \cup { <<i, j>> \in UNION { {i} \X (3..Len(code[i].code)) : i \in 1..Len(code) } :
             code[i].code[j - 2] = "lambda" }

TemporaryNames(code) == { code[pl[1]].code[pl[2]] : pl \in TemporaryPlaces(code) }

\* C16: the names the lowering makes up for "?" and for match differ from one
\* another and from every identifier of the source program.
C16_TemporariesAreFresh ==
    pc = "compiled" =>
        /\ Cardinality(TemporaryNames(python_code)) = Cardinality(TemporaryPlaces(python_code))
        /\ TemporaryNames(python_code) \cap SourceIdentifiers(program) = {}

\* the statements of the function that are a match, and the lines of the
\* output that hold the lambda of one
MatchStmts(fn) ==
    { i \in 1..Len(fn.body) : fn.body[i].kind = "ExprStmt" /\ fn.body[i].expr.kind = "MatchExpr" }

LambdaLines(code) ==
    { i \in 1..Len(code) : \E j \in 1..Len(code[i].code) : code[i].code[j] = "lambda" }

\* the program holds one match, a statement of its one function, with no
\* match inside it
OneMatch(p) ==
    /\ Len(p.functions) = 1
    /\ Len(p.statements) = 0
    /\ Cardinality(MatchStmts(p.functions[1])) = 1
    /\ \A i \in MatchStmts(p.functions[1]) :
           /\ p.functions[1].body[i].expr.subject.kind # "MatchExpr"
           /\ \A k \in 1..Len(p.functions[1].body[i].expr.arms) :
                  p.functions[1].body[i].expr.arms[k].body.kind # "MatchExpr"

TheMatch(p) ==
    p.functions[1].body[CHOOSE i \in MatchStmts(p.functions[1]) : TRUE].expr

\* the first place of a token at or after a place of the line
Find(tokens, token, from) ==
    CHOOSE j \in from..Len(tokens) :
        tokens[j] = token /\ \A k \in from..(j - 1) : tokens[k] # token

\* "((lambda v: chain)(subject))": the name v and the tokens of the chain
LoweredMatch(line) ==
    LET at == Find(line, "lambda", 1)
    IN  [match_var |-> line[at + 2],
         chain |-> SubSeq(line, at + 4, Find(line, ")(", at) - 1)]

\* what the test of the chain is for a subject of the variant: an instance of
\* Ok, an instance of Err, None, or a value with the attribute "value"
ConditionHolds(condition, v, variant) ==
    IF condition = <<"isinstance", "(", v, ", ", "Ok", ")">> THEN variant = "Ok"
    ELSE IF condition = <<"isinstance", "(", v, ", ", "Err", ")">> THEN variant = "Err"
    ELSE IF condition = <<v, " ", "is", " ", "None">> THEN variant = "None"
    ELSE IF condition = <<v, " ", "is", " ", "not", " ", "None", " ", "and", " ",
                          "hasattr", "(", v, ", '", "value", "')">>
        THEN variant = "Some"
    ELSE condition = <<"True">>

RECURSIVE Yields(_, _, _, _, _)

\* the value of "(body if condition else rest)" for a subject of the variant:
\* the arm whose body is evaluated, counted from k, and the tokens of the body
Yields(chain, v, variant, k, last) ==
    IF k = last THEN [arm |-> k, code |-> chain]
    ELSE LET if == Find(chain, "if", 1)
             else == Find(chain, "else", if)
         IN  IF ConditionHolds(SubSeq(chain, if + 2, else - 2), v, variant)
             THEN [arm |-> k, code |-> SubSeq(chain, 2, if - 2)]
             ELSE Yields(SubSeq(chain, else + 2, Len(chain) - 1), v, variant, k + 1, last)

\* the first arm in source order whose pattern names the variant
FirstArm(m, variant) ==
    CHOOSE k \in 1..Len(m.arms) :
        /\ m.arms[k].pattern.kind = variant \o "Pattern"
        /\ \A j \in 1..(k - 1) : m.arms[j].pattern.kind # variant \o "Pattern"

MatchIsLowered == pc = "compiled" /\ OneMatch(program)

C18_EveryWarningHasAHint ==
    \A i \in 1..Len(warnings) : Len(warnings[i].hints) > 0

\* the conditions with a stable code, by the words their message starts with
StableCodes ==
    { [text |-> "Type mismatch: expected ", code |-> "E0301"],
      [text |-> "Undefined variable: ", code |-> "E0302"],
      [text |-> "Match is not exhaustive. Missing: ", code |-> "E0503"] }

\* C19: every error carries the stable code of its condition, E0301 for a type
\* mismatch, E0302 for an undefined variable, E0503 for a match that is not
\* exhaustive: each such error is recorded as a diagnostic of that code.
C19_ErrorsCarryTheirCode ==
    \A i \in 1..Len(errors) :
        \A condition \in StableCodes :
            errors[i].message[1] = condition.text =>
                \E k \in 1..Len(diagnostics) :
                    /\ diagnostics[k].code = condition.code
                    /\ diagnostics[k].message = errors[i].message

\* the statement kinds the checker has a rule for
RuledKinds == {"LetStmt", "ExprStmt", "ReturnStmt", "IfStmt"}

\* C20: when the checker meets a statement of a kind it has no rule for,
\* checking aborts with a fault: the checker never goes on to the next
\* statement as if the node had been checked.
C20_UnknownNodeAborts ==
    [][/\ (BodyStmtChecked /\ CheckedStmt.kind \notin RuledKinds) =>
              ~(pc' = "body" /\ stmtIdx' = stmtIdx + 1)
       /\ (TopLevelStmtChecked /\ program.statements[stmtIdx].kind \notin RuledKinds) =>
              ~(pc' = "functions" /\ stmtIdx' = stmtIdx + 1)]_vars

\* the type the declaration of the function writes after "->"
DeclaredType(fn) == _parse_type(fn.return_type, NewTypeChecker).typ

LastStmt(fn) == fn.body[Len(fn.body)]

\* the body ends in an expression whose own check reports nothing, holds no
\* return, and the function declares a type other than Void
ImplicitReturn(fn) ==
    /\ fn.return_type # NoAnnotation
    /\ ~TypeEq(DeclaredType(fn), VOID)
    /\ Len(fn.body) > 0
    /\ \A i \in 1..Len(fn.body) : ~HoldsReturn(fn.body[i])
    /\ LastStmt(fn).kind = "ExprStmt"
    /\ LastStmt(fn).expr.kind # "IfStmt"
    /\ _check_expr(LastStmt(fn).expr, Checker).c.errors = errors

\* C21: a function that declares a non-Void return type R, holds no return and
\* ends in an expression of type T whose own check reports nothing gets exactly
\* one error, the implicit-return type mismatch, when T is not compatible with
\* R, and none when it is.
C21_ImplicitReturnMismatch ==
    [][(FunctionFinishes /\ ImplicitReturn(CurrentFn)) =>
          IF types_compatible(DeclaredType(CurrentFn), TypeInScope(LastStmt(CurrentFn).expr))
          THEN NewErrors = <<>>
          ELSE /\ Len(NewErrors) = 1
               /\ NewErrors[1].message[1] = "Implicit return type mismatch: expected "]_vars

\* the arms of the match whose pattern is not of the family of the subject
ForeignArms(m) ==
    { i \in 1..Len(m.arms) :
        IF TypeInScope(m.subject).cls = "OptionType"
        THEN m.arms[i].pattern.kind \in {"OkPattern", "ErrPattern"}
        ELSE m.arms[i].pattern.kind \in {"SomePattern", "NonePattern"} }

InvalidPatternErrors(errs) ==
    { i \in 1..Len(errs) :
        /\ errs[i].message[1] = "Pattern '"
        /\ errs[i].message[3] = "' is not valid for " }

EqualityChecked ==
    /\ BodyStmtChecked
    /\ CheckedStmt.kind = "ExprStmt"
    /\ CheckedStmt.expr.kind = "BinaryOp"
    /\ CheckedStmt.expr.operator \in {"==", "!="}

\* C23: every "==" and "!=" expression is given the type Bool, whatever the
\* types of its operands and whether or not an error is reported for it.
C23_EqualityIsBool ==
    [][EqualityChecked =>
          /\ TypeInScope(CheckedStmt.expr) = BOOL
          /\ last_stmt_type' = BOOL]_vars

RECURSIVE NamesAny(_)

\* the annotation is "Any" or holds it as a parameter, at any depth
NamesAny(ann) ==
    \/ ann.name = "Any"
    \/ \E i \in 1..Len(ann.params) : NamesAny(ann.params[i])

\* an annotation of the program names Any: a return type, a parameter type,
\* the type of a let
AnnotatesAny(p) ==
    \/ \E i \in 1..Len(p.functions) :
           \/ NamesAny(p.functions[i].return_type)
           \/ \E k \in 1..Len(p.functions[i].params) :
                  NamesAny(p.functions[i].params[k].type_annotation)
           \/ \E k \in 1..Len(p.functions[i].body) :
                  /\ p.functions[i].body[k].kind = "LetStmt"
                  /\ NamesAny(p.functions[i].body[k].type_annotation)
    \/ \E k \in 1..Len(p.statements) :
           /\ p.statements[k].kind = "LetStmt"
           /\ NamesAny(p.statements[k].type_annotation)

\* C24: an annotation that names Any, on a let, as a return type, as a
\* parameter type, or inside Option or Result, is rejected with the error of
\* code E0316: no program with such an annotation is checked with no error.
C24_AnyAnnotationRejected ==
    (pc = "checked" /\ AnnotatesAny(program)) =>
        /\ Len(errors) > 0
        /\ WithCode(diagnostics, "E0316") # {}

\* the let is "let mut"
IsMutable(stmt) == "mutable" \in DOMAIN stmt /\ stmt.mutable

\* the assignments of the body to a name a let without "mut" declares before
ImmutableAssignments(body) ==
    { i \in 1..Len(body) :
        /\ body[i].kind = "AssignStmt"
        /\ \E j \in 1..(i - 1) :
               /\ body[j].kind = "LetStmt"
               /\ body[j].name = body[i].name
               /\ ~IsMutable(body[j]) }

\* C25: each assignment to a name declared by a let without "mut" is reported
\* as exactly one E0323 error, and the same program with "let mut" is checked
\* with no error.
C25_AssignmentToImmutable ==
    (pc = "checked" /\ program \in MutabilityPrograms) =>
        /\ Cardinality(WithCode(diagnostics, "E0323"))
               = Cardinality(ImmutableAssignments(program.functions[1].body))
        /\ Len(errors) = Cardinality(ImmutableAssignments(program.functions[1].body))

RECURSIVE JumpsOutsideLoop(_, _, _)

\* how many statements of the kind stand in the block outside every loop: in
\* the block itself or in the branches of its ifs, not in the body of a while
JumpsOutsideLoop(stmts, i, kind) ==
    IF i > Len(stmts) THEN 0
    ELSE JumpsOutsideLoop(stmts, i + 1, kind) +
         (IF stmts[i].kind = kind THEN 1
          ELSE IF stmts[i].kind = "IfStmt"
              THEN JumpsOutsideLoop(stmts[i].then_body, 1, kind)
                   + JumpsOutsideLoop(stmts[i].else_body, 1, kind)
          ELSE 0)

\* C26: a break is reported as exactly one E0505 error, and a continue as
\* exactly one E0506 error, if and only if it stands in no loop body of its
\* function, an if outside every loop included.
C26_JumpOutsideLoop ==
    (pc = "checked" /\ Len(program.functions) = 1) =>
        /\ Cardinality(WithCode(diagnostics, "E0505"))
               = JumpsOutsideLoop(program.functions[1].body, 1, "BreakStmt")
        /\ Cardinality(WithCode(diagnostics, "E0506"))
               = JumpsOutsideLoop(program.functions[1].body, 1, "ContinueStmt")

\* compile_source has returned or raised
Compiled == pc \in {"compiled", "CompileError", "ValueError"}

\* C27: with type checking on, target code is generated exactly when the
\* checker's error list for the program is empty, whatever warnings there are;
\* otherwise CompileError is raised and no code is generated.
C27_CodeIffNoErrors ==
    Compiled =>
        /\ pc = "compiled" <=> Len(errors) = 0
        /\ pc = "compiled" => python_code = transpile(program, NewTranspiler).lines
        /\ pc # "compiled" => (pc = "CompileError" /\ python_code = <<>>)

\* a program with a warning and no error has been compiled to code
C27_Witness ==
    /\ pc = "compiled"
    /\ Len(warnings) > 0
    /\ Len(errors) = 0
    /\ python_code # <<>>

C29_BranchLetInScope ==
    [][(BodyStmtChecked /\ CheckedStmt.kind = "IfStmt") =>
          \A n \in BlockNames(CheckedStmt) :
              UndefinedErrors(NewErrors, n) = {}]_vars

\* the argument-count errors that name the function
ArgumentCountErrors(errs, n) ==
    { k \in 1..Len(errs) :
        /\ Len(errs[k].message) >= 3
        /\ errs[k].message[1] = "Function "
        /\ errs[k].message[2] = n
        /\ errs[k].message[3] = " expects " }

\* the program is one call at the top level of the one function it declares
CallsItsFunction ==
    /\ Len(program.functions) = 1
    /\ Len(program.statements) = 1
    /\ program.statements[1].kind = "ExprStmt"
    /\ program.statements[1].expr.kind = "Call"
    /\ program.statements[1].expr.callee = Identifier(program.functions[1].name)

\* C30: a call of a function the program declares with a number of arguments
\* other than its number of parameters is reported as exactly one
\* argument-count error, whatever the number of parameters, and a call with
\* the right number as none.
C30_WrongArgumentCount ==
    (pc = "checked" /\ CallsItsFunction) =>
        Cardinality(ArgumentCountErrors(errors, program.functions[1].name))
            = IF Len(program.statements[1].expr.arguments)
                     # Len(program.functions[1].params)
              THEN 1 ELSE 0

====
